---- MODULE Spec2Model ----
(***************************************************************************)
(* NyaTab: wallpaper lifecycle and synchronisation between the background  *)
(* service worker and the foreground new-tab pages.                        *)
(*                                                                         *)
(* Every execution context (one background, several foreground pages) has  *)
(* its own Redux store; the contexts share chrome.storage.local, the       *)
(* chrome.alarms registry and the runtime messaging channel.  Every async  *)
(* function is a frame on the call stack of a task; one action is one run  *)
(* of a function from one await to the next, so tasks of all contexts      *)
(* interleave exactly at the awaits of the source.                         *)
(***************************************************************************)
EXTENDS Integers, Sequences, FiniteSets, TLC

\* ------------------------------------------------------------------ bounds
\* Tasks (async handlers) that may be in flight at the same time.
MaxTasks == 2
\* Operations started in one behaviour.
MaxOps == 2
\* Storage writes that fail in one behaviour.
MaxFaults == 1

\* ------------------------------------------------------------- the universe
Bg == "bg"
Fg == {"fg1", "fg2"}
Ctx == {Bg} \cup Fg
TaskId == 1 .. MaxTasks

\* Wallpaper ids: u1 is a user upload (sourceType local, source
\* 'local_upload', a data: URL as path), r1 and r2 come from the remote
\* provider (sourceType remote); r2 carries an nsfw tag.
Ids == {"u1", "r1", "r2"}
IsLocalUpload(id) == id = "u1"
IsNsfw(id) == id = "r2"

\* A wallpaper: its id and whether its path is the full image or has been
\* replaced by its thumbnail.
Wallpaper(id) == [id |-> id, path |-> "full"]
NoWallpaper == [id |-> "null", path |-> "null"]
WithThumbnailAsPath(w) == [w EXCEPT !.path = "thumb"]
\* wallpaper.path.startsWith('data:image'): uploads are stored as data URLs,
\* remote wallpapers as https URLs.
PathIsNeverDataImage(w) == FALSE
PathIsDataImage(w) == IsLocalUpload(w.id)

\* What the remote provider may answer to one search (empty: no results, or
\* any failure, which the client turns into no results).
RemoteResults == {<<>>, <<Wallpaper("r1")>>, <<Wallpaper("r1"), Wallpaper("r2")>>}

\* ----------------------------------------------------------------- helpers
RECURSIVE SeqIds(_)
SeqIds(s) == IF s = <<>> THEN {} ELSE {Head(s).id} \cup SeqIds(Tail(s))

HasId(s, id) == \E i \in 1 .. Len(s) : s[i].id = id

CountId(s, id) == Cardinality({i \in 1 .. Len(s) : s[i].id = id})

NoDuplicateIds(s) == \A i, j \in 1 .. Len(s) : s[i].id = s[j].id => i = j

RECURSIVE FilterOutId(_, _)
FilterOutId(s, id) ==
  IF s = <<>> THEN <<>>
  ELSE IF Head(s).id = id THEN FilterOutId(Tail(s), id)
       ELSE <<Head(s)>> \o FilterOutId(Tail(s), id)

Front(s) == SubSeq(s, 1, Len(s) - 1)

\* ------------------------------------------------------------------- state
VARIABLES
  local,    \* chrome.storage.local: the keys the core uses
  sync,     \* chrome.storage.sync: the settings key
  alarms,   \* chrome.alarms: the registered alarms
  redux,    \* the Redux store of every context (in memory, never shared)
  open,     \* the foreground pages that are open (their listeners registered)
  listeners, \* the tabs.onCreated listeners the background has registered
  clock,    \* the minute it is, and the minute from which the period of the
            \* 'shuffleWallpaper' alarm counts (its creation, its last firing)
  tasks,    \* the async handlers in flight: context, call stack, last result
  req,      \* the runtime message in flight and the responses to it
  last,     \* observation: the operation that completed last
  ops,      \* operations started so far (also the clock of lastShuffleTime)
  faults    \* storage writes that have failed so far

vars == <<local, sync, alarms, redux, open, listeners, clock, tasks, req, last, ops, faults>>

\* The platform state that the storage and wallpaper services never touch.
platform == <<sync, alarms, open, listeners, clock, req, ops>>

\* ------------------------------------------------------- records and stacks
\* What a call gave back: resolved (ok) or rejected (err) with the error's
\* message class and whether the thrown value is an Error instance.
NoRet == [st |-> "none", msg |-> "", isError |-> FALSE, w |-> NoWallpaper, lib |-> <<>>]
Ok == [NoRet EXCEPT !.st = "ok"]
OkW(w) == [Ok EXCEPT !.w = w]
OkLib(l) == [Ok EXCEPT !.lib = l]
Err(msg) == [NoRet EXCEPT !.st = "err", !.msg = msg, !.isError = TRUE]
ErrW(msg, w) == [Err(msg) EXCEPT !.w = w]

\* A frame of a task's call stack: the function, the await it stands at, and
\* its locals (w: a wallpaper, lib: a list read from storage or from the
\* store, id: a wallpaper id, src and nsfw: the shuffle parameters, k: a
\* counter, held: a result kept for later, args: the function's arguments).
Frame(fn, pc) ==
  [fn |-> fn, pc |-> pc, w |-> NoWallpaper, lib |-> <<>>, id |-> "null",
   src |-> "undefined", nsfw |-> "undefined", k |-> 0, held |-> NoRet,
   args |-> <<>>]

\* A task slot. trig is what started the handler; cur0 and lib0 are the
\* persisted Current and Library when it started, alone whether no other
\* task has been in flight since, wrote the number of times it has written
\* the currentWallpaper key, picks the number of random picks of its
\* shuffle, heldCur the store's Current that shuffle compared against,
\* libWrites the outcomes of its calls of storageService.saveLibrary,
\* uncaught whether a promise of the handler was rejected with nothing to
\* catch it.
IdleTask ==
  [ctx |-> "none", op |-> "none", trig |-> "none", stack |-> <<>>, ret |-> NoRet,
   arg |-> "null", cur0 |-> NoWallpaper, lib0 |-> <<>>, alone |-> FALSE,
   wrote |-> 0, picks |-> 0, pool |-> <<>>, heldCur |-> NoWallpaper,
   attempts |-> 0, libAtShuffle |-> <<>>, source |-> "none", args |-> <<>>,
   libWrites |-> <<>>, uncaught |-> FALSE]

\* An observation: what the operation was and did (list: the list it
\* returned), and before (the operation that completed before it).
NoBefore == [op |-> "none", arg |-> "null", st |-> "none", alone |-> FALSE, lib0 |-> <<>>]

NoLast ==
  [op |-> "none", ctx |-> "none", trig |-> "none", st |-> "none", msg |-> "",
   arg |-> "null", w |-> NoWallpaper, cur0 |-> NoWallpaper, cur1 |-> NoWallpaper,
   lib0 |-> <<>>, lib1 |-> <<>>, alone |-> FALSE, wrote |-> 0, picks |-> 0,
   pool |-> <<>>, heldCur |-> NoWallpaper, attempts |-> 0, libAtShuffle |-> <<>>,
   source |-> "none", args |-> <<>>, libWrites |-> <<>>, list |-> <<>>,
   alarms1 |-> {}, uncaught |-> FALSE, before |-> NoBefore]

Busy(t) == tasks[t].ctx # "none"
Top(t) == tasks[t].stack[Len(tasks[t].stack)]

\* A task whose callee has returned resumes as a microtask: the event loop
\* runs it before it dispatches any other event, so no platform call
\* completes and no handler starts while a task is resumable.
Resumable(tk) == tk.ret.st # "none"
Quiet == \A u \in TaskId : Busy(u) => ~Resumable(tasks[u])
At(t, fn, pc) ==
  /\ Busy(t) /\ Top(t).fn = fn /\ Top(t).pc = pc
  /\ Resumable(tasks[t]) \/ Quiet

\* The task with its top frame replaced, with a callee's frame pushed, and
\* with its top frame popped and the result handed to the caller.
Goto(tk, f) == [tk EXCEPT !.stack = Front(tk.stack) \o <<f>>, !.ret = NoRet]
Call(tk, f, callees) == [tk EXCEPT !.stack = Front(tk.stack) \o <<f>> \o callees, !.ret = NoRet]
Return(tk, r) == [tk EXCEPT !.stack = Front(tk.stack), !.ret = r]

\* The observation left by a task whose last frame has returned.
Completion(tk, persisted) ==
  [op |-> tk.op, ctx |-> tk.ctx, trig |-> tk.trig, st |-> tk.ret.st, msg |-> tk.ret.msg,
   arg |-> tk.arg, w |-> tk.ret.w, cur0 |-> tk.cur0, cur1 |-> persisted.currentWallpaper,
   lib0 |-> tk.lib0, lib1 |-> persisted.wallpaperLibrary, alone |-> tk.alone,
   wrote |-> tk.wrote, picks |-> tk.picks, pool |-> tk.pool, heldCur |-> tk.heldCur,
   attempts |-> tk.attempts, libAtShuffle |-> tk.libAtShuffle, source |-> tk.source,
   args |-> tk.args, libWrites |-> tk.libWrites, list |-> tk.ret.lib,
   alarms1 |-> alarms, uncaught |-> tk.uncaught,
   before |-> [op |-> last.op, arg |-> last.arg, st |-> last.st, alone |-> last.alone,
               lib0 |-> last.lib0]]

\* Task t continues as tk; when its stack is empty the handler is over: the
\* slot is freed and the completion observed.
\* persisted is chrome.storage.local as this step leaves it.
CommitWith(persisted, t, tk) ==
  /\ tasks' = [tasks EXCEPT ![t] = IF tk.stack = <<>> THEN IdleTask ELSE tk]
  /\ last' = IF tk.stack = <<>> THEN Completion(tk, persisted) ELSE last

Commit(t, tk) == CommitWith(local, t, tk)

\* A handler that starts in context c, before it has run.
NewTask(c, op, trig, arg) ==
  [IdleTask EXCEPT !.ctx = c, !.op = op, !.trig = trig, !.arg = arg,
     !.cur0 = local.currentWallpaper, !.lib0 = local.wallpaperLibrary,
     !.alone = \A v \in TaskId : ~Busy(v)]

\* A new handler takes the lowest free slot; tk is the task as it stands at
\* its first await (an empty stack: it was over before any await). Every
\* task already in flight is no longer alone.
Start(t, tk) ==
  /\ ~Busy(t)
  /\ Quiet
  /\ \A u \in TaskId : u < t => Busy(u)
  /\ ops < MaxOps
  /\ ops' = ops + 1
  /\ tasks' = [u \in TaskId |->
       IF u = t THEN (IF tk.stack = <<>> THEN IdleTask ELSE tk)
       ELSE IF Busy(u) THEN [tasks[u] EXCEPT !.alone = FALSE] ELSE tasks[u]]
  /\ last' = IF tk.stack = <<>> THEN Completion(tk, local) ELSE last

\* chrome.storage.local.set: the write goes through, or fails with the
\* quota error or with another error; a failed write leaves the key as it
\* was.
WriteOutcomes == IF faults < MaxFaults THEN {"ok", "quota", "other"} ELSE {"ok"}
Fault(o) == faults' = IF o = "ok" THEN faults ELSE faults + 1

\* ------------------------------------------------------------ storageService
\* The frames a caller pushes to call a function stand at the function's
\* first await.
EnterStorageAddToLibrary(w) ==
  <<[Frame("storageService.addToLibrary", "getLibrary") EXCEPT !.w = w]>>

EnterStorageRemoveFromLibrary(id) ==
  <<[Frame("storageService.removeFromLibrary", "getLibrary") EXCEPT !.id = id]>>

EnterStorageSaveCurrentWallpaper(w) ==
  <<[Frame("storageService.saveCurrentWallpaper", "set") EXCEPT !.w = w]>>

\* addToLibrary, after getLibrary: an id already in the library ends the
\* call with nothing written.
AddToLibraryNeverSkips(lib, w) == FALSE
AddToLibrarySkipsFirst(lib, w) == lib # <<>> /\ Head(lib).id = w.id
AddToLibrarySkips(lib, w) == HasId(lib, w.id)

StorageAddToLibrary_getLibrary(t) ==
  /\ At(t, "storageService.addToLibrary", "getLibrary")
  /\ LET f == Top(t)
         library == local.wallpaperLibrary
     IN IF AddToLibrarySkips(library, f.w)
        THEN Commit(t, Return(tasks[t], OkW(f.w)))
        ELSE Commit(t, Goto(tasks[t], [f EXCEPT !.pc = "saveLibrary", !.lib = library]))
  /\ UNCHANGED <<local, redux, platform, faults>>

\* addToLibrary, the first saveLibrary([wallpaper, ...library]). On the quota
\* error a wallpaper whose path is a data URL is retried with its thumbnail
\* as path; any other wallpaper, and any other error, fails the call.
StorageAddToLibrary_saveLibrary(t) ==
  /\ At(t, "storageService.addToLibrary", "saveLibrary")
  /\ \E o \in WriteOutcomes :
       LET f == Top(t)
           tk == [tasks[t] EXCEPT !.libWrites = Append(@, o)]
       IN
       /\ Fault(o)
       /\ local' = IF o = "ok"
                   THEN [local EXCEPT !.wallpaperLibrary = <<f.w>> \o f.lib]
                   ELSE local
       /\ CASE o = "ok" -> CommitWith(local', t, Return(tk, OkW(f.w)))
            [] o = "quota" /\ PathIsDataImage(f.w) ->
                 CommitWith(local', t, Goto(tk, [f EXCEPT !.pc = "retry",
                                                         !.w = WithThumbnailAsPath(f.w)]))
            [] o = "quota" /\ ~PathIsDataImage(f.w) ->
                 CommitWith(local', t, Return(tk, ErrW("quota", f.w)))
            [] OTHER -> CommitWith(local', t, Return(tk, ErrW("other", f.w)))
  /\ UNCHANGED <<redux, platform>>

\* addToLibrary, the one retry with the thumbnail as path. The storage that
\* has just refused a write for its quota may refuse this one too: the
\* retry's failure is no new fault. Whatever makes the retry fail, the call
\* fails with 'Storage quota exceeded'.
RetryOutcomes == {"ok", "quota", "other"}

StorageAddToLibrary_retry(t) ==
  /\ At(t, "storageService.addToLibrary", "retry")
  /\ \E o \in RetryOutcomes :
       LET f == Top(t)
           tk == [tasks[t] EXCEPT !.libWrites = Append(@, o)]
       IN
       /\ local' = IF o = "ok"
                   THEN [local EXCEPT !.wallpaperLibrary = <<f.w>> \o f.lib]
                   ELSE local
       /\ IF o = "ok"
          THEN CommitWith(local', t, Return(tk, OkW(f.w)))
          ELSE CommitWith(local', t, Return(tk, ErrW("quota", f.w)))
  /\ UNCHANGED <<redux, platform, faults>>

StorageRemoveFromLibrary_getLibrary(t) ==
  /\ At(t, "storageService.removeFromLibrary", "getLibrary")
  /\ Commit(t, Goto(tasks[t], [Top(t) EXCEPT !.pc = "set",
                                             !.lib = local.wallpaperLibrary]))
  /\ UNCHANGED <<local, redux, platform, faults>>

\* removeFromLibrary writes the list it read without the id, also when the
\* id was not in it.
StorageRemoveFromLibrary_set(t) ==
  /\ At(t, "storageService.removeFromLibrary", "set")
  /\ \E o \in WriteOutcomes :
       LET f == Top(t) IN
       /\ Fault(o)
       /\ local' = IF o = "ok"
                   THEN [local EXCEPT !.wallpaperLibrary = FilterOutId(f.lib, f.id)]
                   ELSE local
       /\ CommitWith(local', t, Return(tasks[t], IF o = "ok" THEN Ok ELSE Err(o)))
  /\ UNCHANGED <<redux, platform>>

\* saveCurrentWallpaper writes the currentWallpaper key and then adds a user
\* upload to the library; an error of either step is rethrown.
SaveCurrentAddsAll(w) == TRUE
SaveCurrentAutoAdds(w) == IsLocalUpload(w.id)

\* (A write that loses the key when it fails.)
StorageSaveCurrentWallpaper_setLosesKey(t) ==
  /\ At(t, "storageService.saveCurrentWallpaper", "set")
  /\ \E o \in WriteOutcomes :
       LET f == Top(t)
           tk == [tasks[t] EXCEPT !.wrote = IF o = "ok" THEN @ + 1 ELSE @]
       IN
       /\ Fault(o)
       /\ local' = [local EXCEPT !.currentWallpaper = IF o = "ok" THEN f.w ELSE NoWallpaper]
       /\ CASE o # "ok" -> CommitWith(local', t, Return(tk, ErrW(o, f.w)))
            [] o = "ok" /\ SaveCurrentAutoAdds(f.w) ->
                 CommitWith(local', t, Call(tk, [f EXCEPT !.pc = "added"], EnterStorageAddToLibrary(f.w)))
            [] OTHER -> CommitWith(local', t, Return(tk, OkW(f.w)))
  /\ UNCHANGED <<redux, platform>>

StorageSaveCurrentWallpaper_set(t) ==
  /\ At(t, "storageService.saveCurrentWallpaper", "set")
  /\ \E o \in WriteOutcomes :
       LET f == Top(t)
           tk == [tasks[t] EXCEPT !.wrote = IF o = "ok" THEN @ + 1 ELSE @]
       IN
       /\ Fault(o)
       /\ local' = IF o = "ok" THEN [local EXCEPT !.currentWallpaper = f.w] ELSE local
       /\ CASE o # "ok" -> CommitWith(local', t, Return(tk, ErrW(o, f.w)))
            [] o = "ok" /\ SaveCurrentAutoAdds(f.w) ->
                 CommitWith(local', t, Call(tk, [f EXCEPT !.pc = "added"], EnterStorageAddToLibrary(f.w)))
            [] OTHER -> CommitWith(local', t, Return(tk, OkW(f.w)))
  /\ UNCHANGED <<redux, platform>>

StorageSaveCurrentWallpaper_added(t) ==
  /\ At(t, "storageService.saveCurrentWallpaper", "added")
  /\ Commit(t, Return(tasks[t], tasks[t].ret))
  /\ UNCHANGED <<local, redux, platform, faults>>

\* ---------------------------------------------------------- wallpaperService
\* saveCurrentWallpaper(wallpaper), the branch of a wallpaper whose path is
\* no blob: URL: storageService.saveCurrentWallpaper, then for a user upload
\* storageService.addToLibrary (its error only logged), then the history.
EnterSaveCurrentWallpaper(w) ==
  <<[Frame("wallpaperService.saveCurrentWallpaper", "saved") EXCEPT !.w = w]>>
    \o EnterStorageSaveCurrentWallpaper(w)

SaveCurrentWallpaper_saved(t) ==
  /\ At(t, "wallpaperService.saveCurrentWallpaper", "saved")
  /\ LET f == Top(t)
         r == tasks[t].ret
     IN CASE r.st = "err" -> Commit(t, Return(tasks[t], r))
          [] r.st = "ok" /\ IsLocalUpload(r.w.id) ->
               Commit(t, Call(tasks[t], [f EXCEPT !.pc = "added", !.w = r.w],
                              EnterStorageAddToLibrary(r.w)))
          [] OTHER -> Commit(t, Goto(tasks[t], [f EXCEPT !.pc = "history", !.w = r.w]))
  /\ UNCHANGED <<local, redux, platform, faults>>

SaveCurrentWallpaper_added(t) ==
  /\ At(t, "wallpaperService.saveCurrentWallpaper", "added")
  /\ Commit(t, Goto(tasks[t], [Top(t) EXCEPT !.pc = "history", !.w = tasks[t].ret.w]))
  /\ UNCHANGED <<local, redux, platform, faults>>

\* addToWallpaperHistory: it reads and writes the 'wallpapers' key, which
\* nothing of the core reads, and swallows its own errors.
SaveCurrentWallpaper_history(t) ==
  /\ At(t, "wallpaperService.saveCurrentWallpaper", "history")
  /\ Commit(t, Return(tasks[t], OkW(Top(t).w)))
  /\ UNCHANGED <<local, redux, platform, faults>>

\* ------------------------------------------------------------ the thunks
\* dispatch(thunk).unwrap() rethrows a rejected thunk's error as the
\* serialised error of the rejected action (name, message, stack copied into
\* a plain object): the message is kept, the Error class is not.
Rejected(r) == [r EXCEPT !.st = "err", !.isError = FALSE]

Store(t) == redux[tasks[t].ctx]
Reduce(t, st) == redux' = [redux EXCEPT ![tasks[t].ctx] = st]

\* addToLibrary(wallpaper): storageService.addToLibrary of a copy; the
\* fulfilled reducer puts the payload first in the store's library unless
\* its id is there.
EnterAddToLibrary(w) ==
  <<[Frame("addToLibrary", "added") EXCEPT !.w = w]>> \o EnterStorageAddToLibrary(w)

AddToLibrary_added(t) ==
  /\ At(t, "addToLibrary", "added")
  /\ LET r == tasks[t].ret
         st == Store(t)
     IN IF r.st = "ok"
        THEN /\ Reduce(t, [st EXCEPT !.library =
                    IF HasId(@, r.w.id) THEN @ ELSE <<r.w>> \o @])
             /\ Commit(t, Return(tasks[t], OkW(r.w)))
        ELSE /\ UNCHANGED redux
             /\ Commit(t, Return(tasks[t], Rejected(r)))
  /\ UNCHANGED <<local, platform, faults>>

\* setCurrentWallpaper(wallpaper): wallpaperService.saveCurrentWallpaper; the
\* fulfilled reducer makes it the store's current wallpaper.
EnterSetCurrentWallpaper(w) ==
  <<[Frame("setCurrentWallpaper", "saved") EXCEPT !.w = w]>> \o EnterSaveCurrentWallpaper(w)

SetCurrentWallpaper_saved(t) ==
  /\ At(t, "setCurrentWallpaper", "saved")
  /\ LET r == tasks[t].ret
     IN IF r.st = "ok"
        THEN /\ Reduce(t, [Store(t) EXCEPT !.currentWallpaper = r.w])
             /\ Commit(t, Return(tasks[t], OkW(r.w)))
        ELSE /\ UNCHANGED redux
             /\ Commit(t, Return(tasks[t], Rejected(r)))
  /\ UNCHANGED <<local, platform, faults>>

\* fetchLibrary: Array.from(new Map(library.map(item => [item.id, item]))
\* .values()): one entry per id, at the place of the id's first entry, with
\* the value of its last.
RECURSIVE LastWithId(_, _)
LastWithId(s, id) ==
  IF s[Len(s)].id = id THEN s[Len(s)] ELSE LastWithId(Front(s), id)

UniqueByIdKeepsAll(s, all) == s

RECURSIVE UniqueById(_, _)
UniqueById(s, all) ==
  IF s = <<>> THEN <<>>
  ELSE IF HasId(Front(s), s[Len(s)].id) THEN UniqueById(Front(s), all)
       ELSE UniqueById(Front(s), all) \o <<LastWithId(all, s[Len(s)].id)>>

EnterFetchLibrary == <<Frame("fetchLibrary", "getLibrary")>>

FetchLibrary_getLibrary(t) ==
  /\ At(t, "fetchLibrary", "getLibrary")
  /\ LET library == local.wallpaperLibrary
         uniqueLibrary == UniqueById(library, library)
     IN IF Len(uniqueLibrary) # Len(library)
        THEN /\ UNCHANGED redux
             /\ Commit(t, Goto(tasks[t], [Top(t) EXCEPT !.pc = "saveLibrary",
                                                        !.lib = uniqueLibrary]))
        ELSE /\ Reduce(t, [Store(t) EXCEPT !.library = uniqueLibrary])
             /\ Commit(t, Return(tasks[t], OkLib(uniqueLibrary)))
  /\ UNCHANGED <<local, platform, faults>>

\* The de-duplicated list is saved; when the save fails the thunk's catch
\* returns [] and the store's library becomes empty.
FetchLibrary_saveLibrary(t) ==
  /\ At(t, "fetchLibrary", "saveLibrary")
  /\ \E o \in WriteOutcomes :
       LET payload == IF o = "ok" THEN Top(t).lib ELSE <<>>
           tk == [tasks[t] EXCEPT !.libWrites = Append(@, o)]
       IN
       /\ Fault(o)
       /\ local' = IF o = "ok" THEN [local EXCEPT !.wallpaperLibrary = payload] ELSE local
       /\ Reduce(t, [Store(t) EXCEPT !.library = payload])
       /\ CommitWith(local', t, Return(tk, OkLib(payload)))
  /\ UNCHANGED platform

\* loadSavedWallpaper: fetchLibrary, then the current wallpaper is read; none
\* saved: the first of the library (or null) becomes the store's current,
\* nothing is written. A saved current that is not in the store's library is
\* added to the library by the addToLibrary thunk.
EnterLoadSavedWallpaper ==
  <<Frame("loadSavedWallpaper", "fetched")>> \o EnterFetchLibrary

LoadSavedWallpaper_fetched(t) ==
  /\ At(t, "loadSavedWallpaper", "fetched")
  /\ Commit(t, Goto(tasks[t], [Top(t) EXCEPT !.pc = "getCurrentWallpaper"]))
  /\ UNCHANGED <<local, redux, platform, faults>>

LoadSavedWallpaper_getCurrentWallpaper(t) ==
  /\ At(t, "loadSavedWallpaper", "getCurrentWallpaper")
  /\ LET wallpaper == local.currentWallpaper
         st == Store(t)
     IN CASE wallpaper = NoWallpaper /\ Len(st.library) > 0 ->
               /\ Reduce(t, [st EXCEPT !.currentWallpaper = st.library[1]])
               /\ Commit(t, Return(tasks[t], OkW(st.library[1])))
          [] wallpaper = NoWallpaper /\ Len(st.library) = 0 ->
               /\ Reduce(t, [st EXCEPT !.currentWallpaper = NoWallpaper])
               /\ Commit(t, Return(tasks[t], Ok))
          [] wallpaper # NoWallpaper /\ ~HasId(st.library, wallpaper.id) ->
               /\ UNCHANGED redux
               /\ Commit(t, Call(tasks[t], [Top(t) EXCEPT !.pc = "added", !.w = wallpaper],
                                 EnterAddToLibrary(wallpaper)))
          [] OTHER ->
               /\ Reduce(t, [st EXCEPT !.currentWallpaper = wallpaper])
               /\ Commit(t, Return(tasks[t], OkW(wallpaper)))
  /\ UNCHANGED <<local, platform, faults>>

LoadSavedWallpaper_added(t) ==
  /\ At(t, "loadSavedWallpaper", "added")
  /\ Reduce(t, [Store(t) EXCEPT !.currentWallpaper = Top(t).w])
  /\ Commit(t, Return(tasks[t], OkW(Top(t).w)))
  /\ UNCHANGED <<local, platform, faults>>

\* ------------------------------------------------ the remote provider client
\* searchWallpapers never throws: every failure is an empty list. What it
\* returns respects the purity asked for: off: safe only; allowed: safe and
\* unsafe; only: unsafe only.
SearchResults(nsfw) ==
  CASE nsfw = "only" -> {<<>>, <<Wallpaper("r2")>>}
    [] nsfw = "allowed" -> RemoteResults
    [] OTHER -> {<<>>, <<Wallpaper("r1")>>}

\* fetchRandomWallpaper: a random one of a search's results is saved as
\* current (storageService.saveCurrentWallpaper) and returned; with no
\* result, or when the save fails, the saved current wallpaper is returned
\* if there is one, and the error rethrown if not.
EnterFetchRandomWallpaper == <<Frame("fetchRandomWallpaper", "searchWallpapers")>>

FetchRandomWallpaper_searchWallpapers(t) ==
  /\ At(t, "fetchRandomWallpaper", "searchWallpapers")
  /\ \E wallpapers \in SearchResults(sync.settings.refreshNsfwFilter) :
       IF Len(wallpapers) = 0
       THEN Commit(t, Goto(tasks[t], [Top(t) EXCEPT !.pc = "getCurrentWallpaper"]))
       ELSE \E randomIndex \in 1 .. Len(wallpapers) :
              Commit(t, Call(tasks[t], [Top(t) EXCEPT !.pc = "saved",
                                                      !.w = wallpapers[randomIndex]],
                             EnterStorageSaveCurrentWallpaper(wallpapers[randomIndex])))
  /\ UNCHANGED <<local, redux, platform, faults>>

FetchRandomWallpaper_saved(t) ==
  /\ At(t, "fetchRandomWallpaper", "saved")
  /\ IF tasks[t].ret.st = "ok"
     THEN Commit(t, Return(tasks[t], OkW(Top(t).w)))
     ELSE Commit(t, Goto(tasks[t], [Top(t) EXCEPT !.pc = "getCurrentWallpaper"]))
  /\ UNCHANGED <<local, redux, platform, faults>>

FetchRandomWallpaper_getCurrentWallpaper(t) ==
  /\ At(t, "fetchRandomWallpaper", "getCurrentWallpaper")
  /\ IF local.currentWallpaper # NoWallpaper
     THEN Commit(t, Return(tasks[t], OkW(local.currentWallpaper)))
     ELSE Commit(t, Return(tasks[t], Err("NoWallpapersFound")))
  /\ UNCHANGED <<local, redux, platform, faults>>

\* --------------------------------------------------------- removeFromLibrary
\* removeFromLibrary(wallpaperId), up to its first await: the library and the
\* current wallpaper are those of the context's store; an id that is not in
\* the store's library throws 'Wallpaper not found in library'.
RemoveFromLibraryBegin(tk, st, id) ==
  IF ~HasId(st.library, id)
  THEN [tk EXCEPT !.ret = Rejected(Err("Wallpaper not found in library"))]
  ELSE [tk EXCEPT !.stack =
          <<[Frame("removeFromLibrary", "removed") EXCEPT !.id = id,
                                                          !.w = st.currentWallpaper]>>
            \o EnterStorageRemoveFromLibrary(id)]

RemoveFromLibrary_removed(t) ==
  /\ At(t, "removeFromLibrary", "removed")
  /\ IF tasks[t].ret.st = "ok"
     THEN Commit(t, Goto(tasks[t], [Top(t) EXCEPT !.pc = "getLibrary"]))
     ELSE Commit(t, Return(tasks[t], Rejected(tasks[t].ret)))
  /\ UNCHANGED <<local, redux, platform, faults>>

\* Whether the removed wallpaper is the current one is decided on the
\* current wallpaper the thunk took from the store when it started.
RemovedWasCurrent(f) == f.w # NoWallpaper /\ f.w.id = f.id

\* The library is read back; when the removed wallpaper was the current one
\* a random one of the remaining library replaces it, or a random remote
\* one when the library is empty.
RemoveFromLibrary_getLibrary(t) ==
  /\ At(t, "removeFromLibrary", "getLibrary")
  /\ LET f == Top(t)
         updatedLibrary == local.wallpaperLibrary
     IN CASE RemovedWasCurrent(f) /\ Len(updatedLibrary) > 0 ->
               /\ \E randomIndex \in 1 .. Len(updatedLibrary) :
                    Commit(t, Call(tasks[t], [f EXCEPT !.pc = "replaced", !.lib = updatedLibrary],
                                   EnterSaveCurrentWallpaper(updatedLibrary[randomIndex])))
               /\ UNCHANGED redux
          [] RemovedWasCurrent(f) /\ Len(updatedLibrary) = 0 ->
               /\ Commit(t, Call(tasks[t], [f EXCEPT !.pc = "fetched", !.lib = updatedLibrary],
                                 EnterFetchRandomWallpaper))
               /\ UNCHANGED redux
          [] OTHER ->
               /\ Reduce(t, [Store(t) EXCEPT !.library = updatedLibrary])
               /\ Commit(t, Return(tasks[t], OkLib(updatedLibrary)))
  /\ UNCHANGED <<local, platform, faults>>

RemoveFromLibrary_fetched(t) ==
  /\ At(t, "removeFromLibrary", "fetched")
  /\ IF tasks[t].ret.st = "ok"
     THEN Commit(t, Call(tasks[t], [Top(t) EXCEPT !.pc = "replaced"],
                         EnterSaveCurrentWallpaper(tasks[t].ret.w)))
     ELSE Commit(t, Return(tasks[t], Rejected(tasks[t].ret)))
  /\ UNCHANGED <<local, redux, platform, faults>>

\* The fulfilled reducer replaces the store's library; the store's current
\* wallpaper is left as it was.
RemoveFromLibrary_replaced(t) ==
  /\ At(t, "removeFromLibrary", "replaced")
  /\ IF tasks[t].ret.st = "ok"
     THEN /\ Reduce(t, [Store(t) EXCEPT !.library = Top(t).lib])
          /\ Commit(t, Return(tasks[t], OkLib(Top(t).lib)))
     ELSE /\ UNCHANGED redux
          /\ Commit(t, Return(tasks[t], Rejected(tasks[t].ret)))
  /\ UNCHANGED <<local, platform, faults>>

\* ---------------------------------------------------------- shuffleWallpaper
\* The library pool: with the filter off the whole library; otherwise the
\* filter keeps, for only, the items with an nsfw tag, for allowed, all.
RECURSIVE FilterNsfw(_, _)
FilterNsfw(s, nsfwFilter) ==
  IF s = <<>> THEN <<>>
  ELSE IF nsfwFilter = "only" /\ ~IsNsfw(Head(s).id)
       THEN FilterNsfw(Tail(s), nsfwFilter)
       ELSE <<Head(s)>> \o FilterNsfw(Tail(s), nsfwFilter)

LibraryPoolUnfiltered(library, nsfwFilter) == library
LibraryPool(library, nsfwFilter) ==
  IF nsfwFilter # "off" THEN FilterNsfw(library, nsfwFilter) ELSE library

\* The do-while pick loop: picks[i] is the i-th random index; the loop picks
\* again while there is a current wallpaper, the pick has its id, fewer than
\* pool.length picks were made and the pool has more than one element.
\* The result is <<the wallpaper picked last, the number of picks>>.
PickAgainShortBound(pool, currentWallpaper, randomWallpaper, attempts) ==
  /\ currentWallpaper # NoWallpaper
  /\ randomWallpaper.id = currentWallpaper.id
  /\ attempts < Len(pool) - 1
  /\ Len(pool) > 1

PickAgain(pool, currentWallpaper, randomWallpaper, attempts) ==
  /\ currentWallpaper # NoWallpaper
  /\ randomWallpaper.id = currentWallpaper.id
  /\ attempts < Len(pool)
  /\ Len(pool) > 1

RECURSIVE PickLoop(_, _, _, _)
PickLoop(pool, currentWallpaper, picks, attempts) ==
  LET randomWallpaper == pool[picks[attempts + 1]] IN
  IF PickAgain(pool, currentWallpaper, randomWallpaper, attempts + 1)
  THEN PickLoop(pool, currentWallpaper, picks, attempts + 1)
  ELSE <<randomWallpaper, attempts + 1>>

\* The task once the shuffle has chosen from a pool: the choice is saved as
\* current. (A library pool is part of the store's library, so the branch
\* that adds a library-sourced choice missing from the library never runs.)
ShuffleChoose(tk, f, pool, picks) ==
  LET res == PickLoop(pool, f.w, picks, 0) IN
  Call([tk EXCEPT !.pool = pool, !.heldCur = f.w, !.attempts = res[2],
                  !.libAtShuffle = local.wallpaperLibrary],
       [f EXCEPT !.pc = "saved", !.w = res[1]],
       EnterSaveCurrentWallpaper(res[1]))

\* shuffleWallpaper(params), up to its first await, in a context whose store
\* is st. The source and the filter are the parameters', or the store's
\* settings'; the library and the current wallpaper are the store's.
ShuffleSource(source, st) == IF source # "undefined" THEN source ELSE st.refreshSource
ShuffleLibrary(st) == st.library

ShuffleBegin(tk, caller, st, source, nsfwFilter, picks) ==
  LET refreshSource == ShuffleSource(source, st)
      nsfw == IF nsfwFilter # "undefined" THEN nsfwFilter ELSE st.refreshNsfwFilter
      library == ShuffleLibrary(st)
      f == [Frame("shuffleWallpaper", "searchWallpapers") EXCEPT
              !.src = refreshSource, !.nsfw = nsfw, !.lib = library,
              !.w = st.currentWallpaper]
      entered == [tk EXCEPT !.stack = tk.stack \o caller \o <<f>>,
                            !.libAtShuffle = local.wallpaperLibrary, !.pool = <<>>,
                            !.heldCur = st.currentWallpaper, !.attempts = 0,
                            !.source = refreshSource]
  IN CASE refreshSource = "library" /\ Len(library) = 0 ->
            [entered EXCEPT !.stack = tk.stack \o caller,
                            !.ret = Rejected(Err("EmptyLibrary"))]
       [] refreshSource = "library" /\ Len(LibraryPool(library, nsfw)) = 0 ->
            [entered EXCEPT !.stack = tk.stack \o caller,
                            !.ret = Rejected(Err("NoMatchingContent"))]
       [] refreshSource = "library" ->
            ShuffleChoose(entered, f, LibraryPool(library, nsfw), picks)
       [] OTHER -> entered

\* The random indices one run of the pick loop may draw from a pool of n
\* wallpapers, and those of a shuffle that starts in a store st.
PickSeqs(n) == [1 .. n -> 1 .. n]

BeginPicks(st, source, nsfwFilter) ==
  PickSeqs(Len(LibraryPool(ShuffleLibrary(st),
                           IF nsfwFilter # "undefined" THEN nsfwFilter
                           ELSE st.refreshNsfwFilter)))

\* The browse source: the search's results are the pool; none: the shuffle
\* fails.
ShuffleWallpaper_searchWallpapers(t) ==
  /\ At(t, "shuffleWallpaper", "searchWallpapers")
  /\ \E wallpapers \in SearchResults(Top(t).nsfw) :
       IF Len(wallpapers) = 0
       THEN Commit(t, Return(tasks[t], Rejected(Err("NoResultsAvailable"))))
       ELSE \E picks \in PickSeqs(Len(wallpapers)) :
              Commit(t, ShuffleChoose(tasks[t], Top(t), wallpapers, picks))
  /\ UNCHANGED <<local, redux, platform, faults>>

\* The fulfilled reducer makes the choice the store's current wallpaper.
ShuffleWallpaper_saved(t) ==
  /\ At(t, "shuffleWallpaper", "saved")
  /\ IF tasks[t].ret.st = "ok"
     THEN /\ Reduce(t, [Store(t) EXCEPT !.currentWallpaper = Top(t).w])
          /\ Commit(t, Return(tasks[t], OkW(Top(t).w)))
     ELSE /\ UNCHANGED redux
          /\ Commit(t, Return(tasks[t], Rejected(tasks[t].ret)))
  /\ UNCHANGED <<local, platform, faults>>

\* --------------------------------------------- background: the alarm handler
\* settings.refreshSource || 'library' and settings.refreshNsfwFilter || 'off'.
OrLibrary(source) == IF source = "undefined" THEN "library" ELSE source
OrOff(nsfwFilter) == IF nsfwFilter = "undefined" THEN "off" ELSE nsfwFilter

\* The catch of performWallpaperShuffle retries with the browse source when
\* the settings' source is library, the error is an Error instance and its
\* message includes 'library is empty'.
FallsBackToBrowse(settingsSource, r) ==
  settingsSource = "library" /\ r.isError /\ r.msg = "EmptyLibrary"

EnterPerformWallpaperShuffle == <<Frame("performWallpaperShuffle", "getSettings")>>

\* chrome.storage.local.get('settings'); with the library source the
\* library is read next.
PerformWallpaperShuffle_getSettings(t) ==
  /\ At(t, "performWallpaperShuffle", "getSettings")
  /\ LET settings == local.settings IN
     Commit(t, Goto(tasks[t], [Top(t) EXCEPT
       !.pc = IF settings.refreshSource = "library" THEN "getLibrary"
              ELSE "setLastShuffleTime",
       !.src = settings.refreshSource, !.nsfw = settings.refreshNsfwFilter]))
  /\ UNCHANGED <<local, redux, platform, faults>>

\* An empty persisted library ends the shuffle with success: false.
EmptyLibraryEndsShuffle(libraryData) == Len(libraryData) = 0

PerformWallpaperShuffle_getLibrary(t) ==
  /\ At(t, "performWallpaperShuffle", "getLibrary")
  /\ IF EmptyLibraryEndsShuffle(local.wallpaperLibrary)
     THEN Commit(t, Return(tasks[t], Err("EmptyLibrary")))
     ELSE Commit(t, Goto(tasks[t], [Top(t) EXCEPT !.pc = "setLastShuffleTime"]))
  /\ UNCHANGED <<local, redux, platform, faults>>

\* lastShuffleTime is written, then shuffleWallpaper is dispatched with the
\* settings' source and filter; a failed write ends in the outer catch.
PerformWallpaperShuffle_setLastShuffleTime(t) ==
  /\ At(t, "performWallpaperShuffle", "setLastShuffleTime")
  /\ \E o \in WriteOutcomes :
       LET f == Top(t)
           tk == [tasks[t] EXCEPT !.stack = Front(@), !.ret = NoRet]
       IN
       /\ Fault(o)
       /\ IF o = "ok"
          THEN /\ local' = [local EXCEPT !.lastShuffleTime = ops]
               /\ \E picks \in BeginPicks(Store(t), OrLibrary(f.src), OrOff(f.nsfw)) :
                    CommitWith(local', t, ShuffleBegin(tk, <<[f EXCEPT !.pc = "shuffled"]>>, Store(t),
                                           OrLibrary(f.src), OrOff(f.nsfw), picks))
          ELSE /\ local' = local
               /\ CommitWith(local', t, Return(tasks[t], Err(o)))
  /\ UNCHANGED <<redux, platform>>

\* What performWallpaperShuffle returns for a failed shuffle: success: false
\* with the error's message, or with 'Failed to shuffle wallpaper' when the
\* error is no Error instance.
ShuffleFailure(r) ==
  Err(IF r.isError THEN r.msg ELSE "Failed to shuffle wallpaper")

\* What a handler makes of the settled shuffle: success: true when it was
\* fulfilled, success: false when it was rejected.
ShuffleResultAlwaysFails(r) == ShuffleFailure(r)
ShuffleResult(r) == IF r.st = "ok" THEN Ok ELSE ShuffleFailure(r)

\* The outcome of the dispatched shuffle (and of the retry with the browse
\* source): success, the one retry, or success: false.
PerformWallpaperShuffle_shuffled(t) ==
  /\ At(t, "performWallpaperShuffle", "shuffled") \/ At(t, "performWallpaperShuffle", "fallback")
  /\ LET f == Top(t)
         r == tasks[t].ret
         tk == [tasks[t] EXCEPT !.stack = Front(@), !.ret = NoRet]
     IN IF r.st = "err" /\ f.pc = "shuffled" /\ FallsBackToBrowse(f.src, r)
        THEN Commit(t, ShuffleBegin(tk, <<[f EXCEPT !.pc = "fallback"]>>, Store(t),
                                    "browse", OrOff(f.nsfw), <<>>))
        ELSE Commit(t, Return(tasks[t], ShuffleResult(r)))
  /\ UNCHANGED <<local, redux, platform, faults>>

\* chrome.alarms.onAlarm for 'shuffleWallpaper': performWallpaperShuffle,
\* then the shuffleCount bookkeeping (a key nothing of the core reads). The
\* handler's result is performWallpaperShuffle's. The listener is async and
\* has no try: the rejection of the awaited write of shuffleCount rejects
\* the listener's promise, which nothing catches.
AlarmFires(t) ==
  /\ \E a \in alarms : a.name = "shuffleWallpaper"
  /\ Start(t, [NewTask(Bg, "onAlarm", "alarm", "null") EXCEPT
                 !.stack = <<Frame("onAlarm", "performed")>> \o EnterPerformWallpaperShuffle])
  /\ clock' = [clock EXCEPT !.periodStart = clock.now]
  /\ UNCHANGED <<local, sync, alarms, redux, open, listeners, req, faults>>

OnAlarm_performed(t) ==
  /\ At(t, "onAlarm", "performed")
  /\ Commit(t, Goto(tasks[t], [Top(t) EXCEPT !.pc = "shuffleCount", !.held = tasks[t].ret]))
  /\ UNCHANGED <<local, redux, platform, faults>>

OnAlarm_shuffleCount(t) ==
  /\ At(t, "onAlarm", "shuffleCount")
  /\ \E o \in WriteOutcomes :
       /\ Fault(o)
       /\ Commit(t, Return([tasks[t] EXCEPT !.uncaught = (o # "ok")], Top(t).held))
  /\ UNCHANGED <<local, redux, platform>>

\* ------------------------------------------- background: the new-tab handler
\* settings.changeWallpaperOnNewTab === true ||
\* (isShuffleEnabled === true && shuffleOnNewTab === true)
ShouldChangeWallpaper(data) ==
  \/ data.settings.changeWallpaperOnNewTab = TRUE
  \/ data.isShuffleEnabled = TRUE /\ data.shuffleOnNewTab = TRUE

\* chrome.tabs.onCreated for a new-tab page.
TabCreated(t) ==
  /\ listeners = 1
  /\ Start(t, [NewTask(Bg, "onCreated", "newTab", "null") EXCEPT
                 !.stack = <<Frame("onCreated", "getSettings")>>])
  /\ UNCHANGED <<local, sync, alarms, redux, open, listeners, clock, req, faults>>

\* The settings are read; when the wallpaper should change, the source is
\* the settings' (or library) and with the library source the library is
\* read next.
OnCreated_getSettings(t) ==
  /\ At(t, "onCreated", "getSettings")
  /\ LET f == Top(t)
         tk == [tasks[t] EXCEPT !.stack = Front(@), !.ret = NoRet]
         refreshSource == OrLibrary(local.settings.refreshSource)
         nsfwFilter == OrOff(local.settings.refreshNsfwFilter)
     IN CASE ~ShouldChangeWallpaper(local) ->
               Commit(t, Return(tasks[t], [Ok EXCEPT !.msg = "NoChange"]))
          [] refreshSource = "library" ->
               Commit(t, Goto(tasks[t], [f EXCEPT !.pc = "getLibrary", !.src = refreshSource,
                                                  !.nsfw = nsfwFilter]))
          [] OTHER ->
               Commit(t, ShuffleBegin(tk, <<[f EXCEPT !.pc = "shuffled", !.src = refreshSource,
                                                      !.nsfw = nsfwFilter]>>,
                                      Store(t), refreshSource, nsfwFilter, <<>>))
  /\ UNCHANGED <<local, redux, platform, faults>>

\* An empty persisted library makes the handler use the browse source.
UseSourceForShuffle(libraryData) == IF Len(libraryData) = 0 THEN "browse" ELSE "library"

OnCreated_getLibrary(t) ==
  /\ At(t, "onCreated", "getLibrary")
  /\ LET f == Top(t)
         tk == [tasks[t] EXCEPT !.stack = Front(@), !.ret = NoRet]
         useSourceForShuffle == UseSourceForShuffle(local.wallpaperLibrary)
     IN \E picks \in BeginPicks(Store(t), useSourceForShuffle, f.nsfw) :
          Commit(t, ShuffleBegin(tk, <<[f EXCEPT !.pc = "shuffled", !.src = useSourceForShuffle]>>,
                                 Store(t), useSourceForShuffle, f.nsfw, picks))
  /\ UNCHANGED <<local, redux, platform, faults>>

\* The outcome of the dispatched shuffle (and of the retry with the browse
\* source): lastShuffleTime is written after a success; a failure is logged
\* and ends the handler, but for the one retry.
OnCreated_shuffled(t) ==
  /\ At(t, "onCreated", "shuffled") \/ At(t, "onCreated", "fallback")
  /\ LET f == Top(t)
         r == tasks[t].ret
         tk == [tasks[t] EXCEPT !.stack = Front(@), !.ret = NoRet]
     IN CASE r.st = "ok" ->
               Commit(t, Goto(tasks[t], [f EXCEPT !.pc = "setLastShuffleTime"]))
          [] r.st = "err" /\ f.pc = "shuffled" /\ FallsBackToBrowse(f.src, r) ->
               Commit(t, ShuffleBegin(tk, <<[f EXCEPT !.pc = "fallback"]>>, Store(t),
                                      "browse", f.nsfw, <<>>))
          [] OTHER -> Commit(t, Return(tasks[t], ShuffleFailure(r)))
  /\ UNCHANGED <<local, redux, platform, faults>>

\* lastShuffleTime after a successful shuffle; a failed write is caught and
\* logged, the shuffle has succeeded.
OnCreated_setLastShuffleTime(t) ==
  /\ At(t, "onCreated", "setLastShuffleTime")
  /\ \E o \in WriteOutcomes :
       /\ Fault(o)
       /\ local' = IF o = "ok" THEN [local EXCEPT !.lastShuffleTime = ops] ELSE local
       /\ CommitWith(local', t, Return(tasks[t], [Ok EXCEPT !.msg = IF o = "ok" THEN "" ELSE o]))
  /\ UNCHANGED <<redux, platform>>

\* ------------------------------------------------ the ShuffleWallpaper message
\* handleManualShuffle in a page: nothing is sent when the source is the
\* library and the store's library is empty; else chrome.runtime.sendMessage
\* hands {type: 'SHUFFLE_WALLPAPER', source, nsfwFilter} to the listeners of
\* every other context of the extension.
SendShuffleWallpaper(c) ==
  /\ c \in open /\ req.type = "none" /\ Quiet
  /\ ~(redux[c].refreshSource = "library" /\ Len(redux[c].library) = 0)
  /\ req' = [req EXCEPT !.type = "SHUFFLE_WALLPAPER", !.from = c,
                        !.source = redux[c].refreshSource,
                        !.nsfwFilter = redux[c].refreshNsfwFilter,
                        !.pending = {Bg} \cup (open \ {c})]
  /\ UNCHANGED <<local, sync, alarms, redux, open, listeners, clock, tasks, last, ops, faults>>

\* sendResponse from context c.
RespondNever(c, tk, success) == UNCHANGED req
Respond(c, tk, success) ==
  req' = [req EXCEPT !.responses = Append(@, [ctx |-> c, success |-> success,
                                               wrote |-> tk.wrote]),
                     !.writes = @ + tk.wrote]

\* The fire-and-forget chrome.storage.local.set({lastShuffleTime}) of the
\* background's listener: nothing waits for it and nothing catches its
\* rejection.
SetLastShuffleTime(o) ==
  /\ Fault(o)
  /\ local' = IF o = "ok" THEN [local EXCEPT !.lastShuffleTime = ops] ELSE local

\* The background's runtime.onMessage listener gets the message: with the
\* library source the persisted library is read first, else lastShuffleTime
\* is written and the shuffle dispatched at once.
OnMessage_ShuffleWallpaper(t) ==
  /\ req.type = "SHUFFLE_WALLPAPER" /\ Bg \in req.pending
  /\ LET tk == NewTask(Bg, "onMessage", "message", "null")
         f == [Frame("onMessage", "shuffled") EXCEPT !.src = OrLibrary(req.source),
                                                     !.nsfw = OrOff(req.nsfwFilter)]
     IN IF req.source = "library"
        THEN /\ Start(t, [tk EXCEPT !.stack = <<[f EXCEPT !.pc = "getLibrary"]>>])
             /\ req' = [req EXCEPT !.pending = @ \ {Bg}]
             /\ UNCHANGED <<local, faults>>
        ELSE /\ \E o \in WriteOutcomes :
                  /\ SetLastShuffleTime(o)
                  /\ Start(t, ShuffleBegin([tk EXCEPT !.uncaught = (o # "ok")], <<f>>,
                                           redux[Bg], f.src, f.nsfw, <<>>))
             /\ req' = [req EXCEPT !.pending = @ \ {Bg}, !.executed = @ \cup {Bg}]
  /\ UNCHANGED <<sync, alarms, redux, open, listeners, clock>>

\* The library source: an empty persisted library is answered with
\* success: false; else as above.
OnMessage_getLibrary(t) ==
  /\ At(t, "onMessage", "getLibrary")
  /\ LET f == Top(t)
         tk == [tasks[t] EXCEPT !.stack = Front(@), !.ret = NoRet]
     IN IF Len(local.wallpaperLibrary) = 0
        THEN /\ Respond(Bg, tasks[t], FALSE)
             /\ Commit(t, Return(tasks[t], Err("EmptyLibrary")))
             /\ UNCHANGED <<local, faults>>
        ELSE /\ req' = [req EXCEPT !.executed = @ \cup {Bg}]
             /\ \E o \in WriteOutcomes, picks \in BeginPicks(Store(t), f.src, f.nsfw) :
                  /\ SetLastShuffleTime(o)
                  /\ CommitWith(local', t,
                                ShuffleBegin([tk EXCEPT !.uncaught = (o # "ok")],
                                             <<[f EXCEPT !.pc = "shuffled"]>>, Store(t),
                                             f.src, f.nsfw, picks))
  /\ UNCHANGED <<sync, alarms, redux, open, listeners, clock, ops>>

\* The shuffle's outcome is the response.
OnMessage_shuffled(t) ==
  /\ At(t, "onMessage", "shuffled")
  /\ LET r == tasks[t].ret IN
       /\ Respond(Bg, tasks[t], ShuffleResult(r).st = "ok")
       /\ Commit(t, Return(tasks[t], ShuffleResult(r)))
  /\ UNCHANGED <<local, sync, alarms, redux, open, listeners, clock, ops, faults>>

\* handleMessages of the NewTab component of another open page gets the
\* message: the source is the store's (the message has no refreshSource),
\* the filter the message's or the store's; with the library source and an
\* empty store library it answers success: false at once, else it
\* dispatches the shuffle.
HandleMessages_ShuffleWallpaper(t, c) ==
  /\ req.type = "SHUFFLE_WALLPAPER" /\ c \in req.pending /\ c \in Fg
  /\ LET tk == NewTask(c, "handleMessages", "message", "null")
         sourceToUse == redux[c].refreshSource
         nsfwFilterToUse == IF req.nsfwFilter # "undefined" THEN req.nsfwFilter
                            ELSE redux[c].refreshNsfwFilter
     IN IF sourceToUse = "library" /\ Len(redux[c].library) = 0
        THEN /\ Start(t, [tk EXCEPT !.ret = Err("EmptyLibrary")])
             /\ req' = [req EXCEPT !.pending = @ \ {c},
                                   !.responses = Append(@, [ctx |-> c, success |-> FALSE,
                                                            wrote |-> 0])]
        ELSE /\ \E picks \in BeginPicks(redux[c], sourceToUse, nsfwFilterToUse) :
                  Start(t, ShuffleBegin(tk, <<Frame("handleMessages", "shuffled")>>, redux[c],
                                        sourceToUse, nsfwFilterToUse, picks))
             /\ req' = [req EXCEPT !.pending = @ \ {c}, !.executed = @ \cup {c}]
  /\ UNCHANGED <<local, sync, alarms, redux, open, listeners, clock, faults>>

HandleMessages_shuffled(t) ==
  /\ At(t, "handleMessages", "shuffled")
  /\ LET r == tasks[t].ret IN
       /\ Respond(tasks[t].ctx, tasks[t], ShuffleResult(r).st = "ok")
       /\ Commit(t, Return(tasks[t], ShuffleResult(r)))
  /\ UNCHANGED <<local, sync, alarms, redux, open, listeners, clock, ops, faults>>

\* ------------------------------------------------------- setupShuffleAlarm
\* chrome.alarms: clear removes the alarm of a name, create puts one in
\* place of any alarm of the same name.
AlarmsClear(as, name) == {a \in as : a.name # name}
AlarmsCreate(as, name, periodInMinutes) ==
  AlarmsClear(as, name) \cup {[name |-> name, periodInMinutes |-> periodInMinutes]}

\* if (enabled && intervalMinutes > 0)
ArmsAlarmWhenEnabled(enabled, intervalMinutes) == enabled
ArmsAlarm(enabled, intervalMinutes) == enabled /\ intervalMinutes > 0

\* The messages of the settings panel: isEnabled, interval (minutes) and
\* newTabEnabled (true, false or left out).
MaxInterval == 2
SettingsMessages == BOOLEAN \X (0 .. MaxInterval) \X {"undefined", "true", "false"}

\* The background's runtime.onMessage listener gets
\* {type: 'SHUFFLE_SETTINGS_UPDATED', isEnabled, interval, newTabEnabled} and
\* calls setupShuffleAlarm.
OnMessage_ShuffleSettingsUpdated(t, message) ==
  /\ Start(t, [NewTask(Bg, "onMessage.settings", "message", "null") EXCEPT
                 !.args = message,
                 !.stack = <<Frame("onMessage.settings", "setup"),
                             [Frame("setupShuffleAlarm", "clear") EXCEPT !.args = message]>>])
  /\ UNCHANGED <<local, sync, alarms, redux, open, listeners, clock, req, faults>>

\* await chrome.alarms.clear('shuffleWallpaper')
SetupShuffleAlarm_clear(t) ==
  /\ At(t, "setupShuffleAlarm", "clear")
  /\ alarms' = AlarmsClear(alarms, "shuffleWallpaper")
  /\ tasks' = [tasks EXCEPT ![t] = Goto(tasks[t], [Top(t) EXCEPT !.pc = "get"])]
  /\ UNCHANGED <<local, sync, redux, open, listeners, clock, req, last, ops, faults>>

\* The end of setupShuffleAlarm, after the try block or its catch: the
\* alarm is created when enabled with a positive interval; the result is
\* whether it was.
SetupShuffleAlarm_end(t) ==
  LET enabled == Top(t).args[1]
      intervalMinutes == Top(t).args[2]
  IN /\ alarms' = IF ArmsAlarm(enabled, intervalMinutes)
                  THEN AlarmsCreate(alarms, "shuffleWallpaper", intervalMinutes)
                  ELSE alarms
     /\ clock' = IF ArmsAlarm(enabled, intervalMinutes)
                 THEN [clock EXCEPT !.periodStart = clock.now]
                 ELSE clock
     /\ tasks' = [tasks EXCEPT ![t] =
          Return(tasks[t], [Ok EXCEPT !.msg = IF ArmsAlarm(enabled, intervalMinutes)
                                              THEN "true" ELSE "false"])]
     /\ UNCHANGED last

\* The stored settings are read; newTabEnabled, when given, goes into the
\* copy of the settings object and is written next.
SetupShuffleAlarm_get(t) ==
  /\ At(t, "setupShuffleAlarm", "get")
  /\ LET f == Top(t)
         newTabEnabled == f.args[3]
         settings == IF newTabEnabled # "undefined"
                     THEN [local.settings EXCEPT !.present = TRUE,
                             !.changeWallpaperOnNewTab = (newTabEnabled = "true")]
                     ELSE [local.settings EXCEPT !.present = TRUE]
     IN tasks' = [tasks EXCEPT ![t] = Goto(tasks[t],
          [f EXCEPT !.pc = IF newTabEnabled # "undefined" THEN "setShuffleOnNewTab"
                           ELSE "setIsShuffleEnabled",
                    !.held = [NoRet EXCEPT !.lib = <<settings>>]])]
  /\ UNCHANGED <<local, sync, alarms, redux, open, listeners, clock, req, last, ops, faults>>

\* The three writes of the try block; a failed write is caught and ends the
\* block.
SetupShuffleAlarm_setShuffleOnNewTab(t) ==
  /\ At(t, "setupShuffleAlarm", "setShuffleOnNewTab")
  /\ \E o \in WriteOutcomes :
       /\ Fault(o)
       /\ IF o = "ok"
          THEN /\ local' = [local EXCEPT !.shuffleOnNewTab = (Top(t).args[3] = "true")]
               /\ tasks' = [tasks EXCEPT ![t] =
                    Goto(tasks[t], [Top(t) EXCEPT !.pc = "setIsShuffleEnabled"])]
               /\ UNCHANGED <<alarms, clock, last>>
          ELSE /\ local' = local
               /\ SetupShuffleAlarm_end(t)
  /\ UNCHANGED <<sync, redux, open, listeners, req, ops>>

SetupShuffleAlarm_setIsShuffleEnabled(t) ==
  /\ At(t, "setupShuffleAlarm", "setIsShuffleEnabled")
  /\ \E o \in WriteOutcomes :
       /\ Fault(o)
       /\ IF o = "ok"
          THEN /\ local' = [local EXCEPT !.isShuffleEnabled = Top(t).args[1],
                                         !.shuffleInterval = Top(t).args[2]]
               /\ tasks' = [tasks EXCEPT ![t] =
                    Goto(tasks[t], [Top(t) EXCEPT !.pc = "setSettings"])]
               /\ UNCHANGED <<alarms, clock, last>>
          ELSE /\ local' = local
               /\ SetupShuffleAlarm_end(t)
  /\ UNCHANGED <<sync, redux, open, listeners, req, ops>>

SetupShuffleAlarm_setSettings(t) ==
  /\ At(t, "setupShuffleAlarm", "setSettings")
  /\ \E o \in WriteOutcomes :
       /\ Fault(o)
       /\ local' = IF o = "ok" THEN [local EXCEPT !.settings = Top(t).held.lib[1]] ELSE local
       /\ SetupShuffleAlarm_end(t)
  /\ UNCHANGED <<sync, redux, open, listeners, req, ops>>

\* .then(success => sendResponse({success}))
OnMessage_setup(t) ==
  /\ At(t, "onMessage.settings", "setup")
  /\ Commit(t, Return(tasks[t], tasks[t].ret))
  /\ UNCHANGED <<local, redux, platform, faults>>

\* ------------------------------------------------- foreground: user actions
\* The wallpapers a page can hand to a thunk: one shown by the browser or
\* uploaded, or the store's current one.
Offered(c) ==
  {Wallpaper(id) : id \in Ids} \cup ({redux[c].currentWallpaper} \ {NoWallpaper})

UserAddToLibrary(t, c, w) ==
  /\ c \in open /\ w \in Offered(c)
  /\ Start(t, [NewTask(c, "addToLibrary", "user", w.id) EXCEPT !.stack = EnterAddToLibrary(w)])
  /\ UNCHANGED <<local, sync, alarms, redux, open, listeners, clock, req, faults>>

UserRemoveFromLibrary(t, c, id) ==
  /\ c \in open
  /\ Start(t, RemoveFromLibraryBegin(NewTask(c, "removeFromLibrary", "user", id), redux[c], id))
  /\ UNCHANGED <<local, sync, alarms, redux, open, listeners, clock, req, faults>>

UserSetCurrentWallpaper(t, c, w) ==
  /\ c \in open /\ w \in Offered(c)
  /\ Start(t, [NewTask(c, "setCurrentWallpaper", "user", w.id) EXCEPT
                 !.stack = EnterSetCurrentWallpaper(w)])
  /\ UNCHANGED <<local, sync, alarms, redux, open, listeners, clock, req, faults>>

\* handleRefreshWallpaper(sourceOverride): the source is the override or the
\* store's setting, the filter the store's.
UserShuffle(t, c, sourceOverride) ==
  /\ c \in open
  /\ \E picks \in BeginPicks(redux[c], sourceOverride, redux[c].refreshNsfwFilter) :
       Start(t, ShuffleBegin(NewTask(c, "shuffleWallpaper", "user", "null"), <<>>, redux[c],
                             sourceOverride, redux[c].refreshNsfwFilter, picks))
  /\ UNCHANGED <<local, sync, alarms, redux, open, listeners, clock, req, faults>>

\* ---------------------------------------------------------------- Init
NoRequest ==
  [type |-> "none", from |-> "none", source |-> "undefined", nsfwFilter |-> "undefined",
   isEnabled |-> FALSE, interval |-> 0, newTabEnabled |-> "undefined",
   pending |-> {}, responses |-> <<>>, executed |-> {}, writes |-> 0]

\* The state of a store when its context starts (initialState of the slices).
InitialStore ==
  [library |-> <<>>, currentWallpaper |-> NoWallpaper,
   refreshSource |-> "library", refreshNsfwFilter |-> "off"]

\* The store of a page that has loaded a persisted library and current
\* wallpaper (loadSettings, loadSavedWallpaper).
LoadedStore(lib, cur, settings) ==
  [library |-> lib,
   currentWallpaper |-> IF cur = NoWallpaper /\ Len(lib) > 0 THEN lib[1] ELSE cur,
   refreshSource |-> settings.refreshSource, refreshNsfwFilter |-> settings.refreshNsfwFilter]

Settings(source, nsfwFilter) ==
  [present |-> TRUE, refreshSource |-> source, refreshNsfwFilter |-> nsfwFilter,
   changeWallpaperOnNewTab |-> FALSE]

\* The libraries a behaviour may start from: none, one remote wallpaper, an
\* upload above a remote one, two remote ones.
InitLibraries ==
  {<<>>, <<Wallpaper("r1")>>, <<Wallpaper("u1"), Wallpaper("r1")>>,
   <<Wallpaper("r1"), Wallpaper("r2")>>}

InitPersisted(lib, cur, settings) ==
  /\ local = [currentWallpaper |-> cur, wallpaperLibrary |-> lib, settings |-> settings,
              isShuffleEnabled |-> FALSE, shuffleInterval |-> 0, shuffleOnNewTab |-> FALSE,
              lastShuffleTime |-> 0]
  /\ sync = [settings |-> settings]
  /\ alarms = {[name |-> "clearHistory", periodInMinutes |-> 1440]}
  /\ tasks = [t \in TaskId |-> IdleTask]
  /\ req = NoRequest
  /\ last = NoLast
  /\ ops = 0
  /\ faults = 0

\* The pages are open and have loaded what is persisted; the background has
\* loaded nothing. The current wallpaper is one of the library.
InitLibrary ==
  \E lib \in InitLibraries :
    \E cur \in (IF lib = <<>> THEN {NoWallpaper} ELSE {lib[i] : i \in 1 .. Len(lib)}) :
      /\ InitPersisted(lib, cur, Settings("library", "off"))
      /\ open = Fg
      /\ listeners = 1
      /\ clock = [now |-> 0, periodStart |-> 0]
      /\ redux = [c \in Ctx |->
           IF c = Bg THEN InitialStore
           ELSE LoadedStore(lib, cur, Settings("library", "off"))]

\* ------------------------------------------------------------ the steps
\* The steps of the storage and wallpaper services and of the thunks: those
\* that write the library, those of saving the current wallpaper.
LibraryWriteStep(t) ==
  \/ StorageAddToLibrary_saveLibrary(t)
  \/ StorageAddToLibrary_retry(t)
  \/ StorageRemoveFromLibrary_getLibrary(t)
  \/ StorageRemoveFromLibrary_set(t)

SaveCurrentStep(t) ==
  \/ StorageAddToLibrary_getLibrary(t)
  \/ StorageSaveCurrentWallpaper_set(t)
  \/ StorageSaveCurrentWallpaper_added(t)
  \/ SaveCurrentWallpaper_saved(t)
  \/ SaveCurrentWallpaper_added(t)
  \/ SaveCurrentWallpaper_history(t)

LibraryThunkStep(t) ==
  \/ AddToLibrary_added(t)
  \/ SetCurrentWallpaper_saved(t)
  \/ RemoveFromLibrary_removed(t)
  \/ RemoveFromLibrary_getLibrary(t)
  \/ RemoveFromLibrary_fetched(t)
  \/ RemoveFromLibrary_replaced(t)
  \/ FetchRandomWallpaper_searchWallpapers(t)
  \/ FetchRandomWallpaper_saved(t)
  \/ FetchRandomWallpaper_getCurrentWallpaper(t)
  \/ ShuffleWallpaper_saved(t)

\* The library and the current wallpaper under the user actions of two
\* pages.
NextLibrary ==
  \E t \in TaskId :
    \/ \E c \in Fg, id \in Ids : UserAddToLibrary(t, c, Wallpaper(id))
    \/ \E c \in Fg, id \in Ids : UserRemoveFromLibrary(t, c, id)
    \/ \E c \in Fg, id \in Ids : UserSetCurrentWallpaper(t, c, Wallpaper(id))
    \/ \E c \in Fg : UserShuffle(t, c, "undefined")
    \/ LibraryWriteStep(t)
    \/ SaveCurrentStep(t)
    \/ LibraryThunkStep(t)

SpecLibrary == InitLibrary /\ [][NextLibrary]_vars

\* ------------------------------------------- the background's handlers
NoSettings ==
  [present |-> FALSE, refreshSource |-> "undefined", refreshNsfwFilter |-> "undefined",
   changeWallpaperOnNewTab |-> FALSE]

\* Shuffle is enabled with an interval of one minute and on new tabs, the
\* alarm is armed; the 'settings' key of chrome.storage.local is absent or
\* as the settings panel wrote it; the pages have loaded what is persisted,
\* the second one maybe before the settings were last saved.
InitBackground ==
  \E lib \in InitLibraries :
    \E cur \in (IF lib = <<>> THEN {NoWallpaper} ELSE {lib[i] : i \in 1 .. Len(lib)}) :
      \E s \in {NoSettings, Settings("library", "off"), Settings("browse", "off")} :
        \E s1, s2 \in {Settings("library", "off"), Settings("browse", "off")} :
          /\ local = [currentWallpaper |-> cur, wallpaperLibrary |-> lib, settings |-> s,
                      isShuffleEnabled |-> TRUE, shuffleInterval |-> 1,
                      shuffleOnNewTab |-> TRUE, lastShuffleTime |-> 0]
          /\ sync = [settings |-> s1]
          /\ alarms = {[name |-> "clearHistory", periodInMinutes |-> 1440],
                       [name |-> "shuffleWallpaper", periodInMinutes |-> 1]}
          /\ tasks = [t \in TaskId |-> IdleTask]
          /\ req = NoRequest
          /\ last = NoLast
          /\ ops = 0
          /\ faults = 0
          /\ open = Fg
          /\ listeners = 1
          /\ clock = [now |-> 0, periodStart |-> 0]
          /\ redux = [c \in Ctx |->
               IF c = Bg THEN InitialStore
               ELSE LoadedStore(lib, cur, IF c = "fg1" THEN s1 ELSE s2)]

ShuffleStep(t) ==
  \/ ShuffleWallpaper_searchWallpapers(t)
  \/ ShuffleWallpaper_saved(t)

BackgroundStep(t) ==
  \/ PerformWallpaperShuffle_getSettings(t)
  \/ PerformWallpaperShuffle_getLibrary(t)
  \/ PerformWallpaperShuffle_setLastShuffleTime(t)
  \/ PerformWallpaperShuffle_shuffled(t)
  \/ OnAlarm_performed(t)
  \/ OnAlarm_shuffleCount(t)
  \/ OnCreated_getSettings(t)
  \/ OnCreated_getLibrary(t)
  \/ OnCreated_shuffled(t)
  \/ OnCreated_setLastShuffleTime(t)
  \/ OnMessage_getLibrary(t)
  \/ OnMessage_shuffled(t)
  \/ HandleMessages_shuffled(t)

\* The scheduler's triggers (alarm, new tab, a page's ShuffleWallpaper
\* message) and what they set off.
NextBackground ==
  \/ \E c \in Fg : SendShuffleWallpaper(c)
  \/ \E t \in TaskId :
       \/ AlarmFires(t)
       \/ TabCreated(t)
       \/ OnMessage_ShuffleWallpaper(t)
       \/ \E c \in Fg : HandleMessages_ShuffleWallpaper(t, c)
       \/ BackgroundStep(t)
       \/ ShuffleStep(t)
       \/ SaveCurrentStep(t)

SpecBackground == InitBackground /\ [][NextBackground]_vars

\* One ShuffleWallpaper request and its handling, every handler running on
\* (the event loop resumes each continuation whose awaited call completed).
RequestStep(t) ==
  \/ OnMessage_getLibrary(t)
  \/ OnMessage_shuffled(t)
  \/ HandleMessages_shuffled(t)
  \/ ShuffleStep(t)
  \/ SaveCurrentStep(t)

NextRequest ==
  \/ \E c \in Fg : SendShuffleWallpaper(c)
  \/ \E t \in TaskId :
       \/ OnMessage_ShuffleWallpaper(t)
       \/ \E c \in Fg : HandleMessages_ShuffleWallpaper(t, c)
       \/ RequestStep(t)

SpecRequest ==
  InitBackground /\ [][NextRequest]_vars /\ \A t \in TaskId : WF_vars(RequestStep(t))

\* ------------------------------------------------ the shuffle settings
\* The settings panel's messages, from a state where the alarm is armed
\* with a period of one minute or is not.
InitAlarm ==
  \E s \in {NoSettings, Settings("library", "off")} :
    \E armed \in BOOLEAN :
      /\ local = [currentWallpaper |-> Wallpaper("r1"),
                  wallpaperLibrary |-> <<Wallpaper("r1")>>, settings |-> s,
                  isShuffleEnabled |-> armed, shuffleInterval |-> IF armed THEN 1 ELSE 0,
                  shuffleOnNewTab |-> FALSE, lastShuffleTime |-> 0]
      /\ sync = [settings |-> Settings("library", "off")]
      /\ alarms = {[name |-> "clearHistory", periodInMinutes |-> 1440]} \cup
                  (IF armed THEN {[name |-> "shuffleWallpaper", periodInMinutes |-> 1]}
                   ELSE {})
      /\ tasks = [t \in TaskId |-> IdleTask]
      /\ req = NoRequest
      /\ last = NoLast
      /\ ops = 0
      /\ faults = 0
      /\ open = Fg
      /\ listeners = 1
      /\ clock = [now |-> 0, periodStart |-> 0]
      /\ redux = [c \in Ctx |->
           IF c = Bg THEN InitialStore
           ELSE LoadedStore(<<Wallpaper("r1")>>, Wallpaper("r1"), Settings("library", "off"))]

NextAlarm ==
  \E t \in TaskId :
    \/ \E message \in SettingsMessages : OnMessage_ShuffleSettingsUpdated(t, message)
    \/ SetupShuffleAlarm_clear(t)
    \/ SetupShuffleAlarm_get(t)
    \/ SetupShuffleAlarm_setShuffleOnNewTab(t)
    \/ SetupShuffleAlarm_setIsShuffleEnabled(t)
    \/ SetupShuffleAlarm_setSettings(t)
    \/ OnMessage_setup(t)

SpecAlarm == InitAlarm /\ [][NextAlarm]_vars

\* ------------------------------------------------- the settings save
\* The refresh settings a user can choose in the settings panel.
RefreshSources == {"library", "browse"}
NsfwFilters == {"off", "allowed", "only"}

\* handleSettingChange dispatches saveSettings(newSettings): the store's
\* settings with the new ones merged in go to storageService.saveSettings,
\* which writes the 'settings' key of chrome.storage.sync.
UserSaveSettings(t, c, source, nsfwFilter) ==
  /\ c \in open
  /\ Start(t, [NewTask(c, "saveSettings", "user", "null") EXCEPT
                 !.args = <<source, nsfwFilter>>,
                 !.stack = <<[Frame("saveSettings", "saveSettings") EXCEPT
                                !.src = source, !.nsfw = nsfwFilter]>>])
  /\ UNCHANGED <<local, sync, alarms, redux, open, listeners, clock, req, faults>>

\* The write settles: the fulfilled reducer takes the saved settings into
\* the page's store; a failed write rejects with 'Failed to save settings'.
SaveSettings_saved(t) ==
  /\ At(t, "saveSettings", "saveSettings")
  /\ \E o \in WriteOutcomes :
       LET f == Top(t) IN
       /\ Fault(o)
       /\ IF o = "ok"
          THEN /\ sync' = [sync EXCEPT !.settings =
                    [@ EXCEPT !.present = TRUE, !.refreshSource = f.src,
                              !.refreshNsfwFilter = f.nsfw]]
               /\ Reduce(t, [Store(t) EXCEPT !.refreshSource = f.src,
                                             !.refreshNsfwFilter = f.nsfw])
               /\ Commit(t, Return(tasks[t], Ok))
          ELSE /\ UNCHANGED <<sync, redux>>
               /\ Commit(t, Return(tasks[t], Rejected(Err("Failed to save settings"))))
  /\ UNCHANGED <<local, alarms, open, listeners, clock, req, ops>>

\* A page saves the refresh settings, the alarm fires.
NextSettings ==
  \E t \in TaskId :
    \/ \E c \in Fg, source \in RefreshSources, nsfwFilter \in NsfwFilters :
         UserSaveSettings(t, c, source, nsfwFilter)
    \/ SaveSettings_saved(t)
    \/ AlarmFires(t)
    \/ PerformWallpaperShuffle_getSettings(t)
    \/ PerformWallpaperShuffle_getLibrary(t)
    \/ PerformWallpaperShuffle_setLastShuffleTime(t)
    \/ PerformWallpaperShuffle_shuffled(t)
    \/ OnAlarm_performed(t)
    \/ OnAlarm_shuffleCount(t)
    \/ ShuffleStep(t)
    \/ StorageSaveCurrentWallpaper_set(t)
    \/ SaveCurrentWallpaper_saved(t)
    \/ SaveCurrentWallpaper_history(t)

SpecSettings == InitBackground /\ [][NextSettings]_vars

\* ------------------------------------------------------ a page is opened
\* A new-tab page is opened: its store starts from the slices' initial
\* state and the NewTab component's loadInitialData runs.
PageOpens(t, c) ==
  /\ c \in Fg \ open
  /\ open' = open \cup {c}
  /\ redux' = [redux EXCEPT ![c] = InitialStore]
  /\ Start(t, [NewTask(c, "loadInitialData", "open", "null") EXCEPT
                 !.stack = <<Frame("loadInitialData", "loadSettings")>>])
  /\ UNCHANGED <<local, sync, alarms, listeners, clock, req, faults>>

\* loadSettings: the 'settings' key of chrome.storage.sync merged over the
\* initial state; then loadSavedWallpaper, after which loadInitialData only
\* logs.
LoadInitialData_loadSettings(t) ==
  /\ At(t, "loadInitialData", "loadSettings")
  /\ LET settings == sync.settings
         merged == IF settings.present
                   THEN [Store(t) EXCEPT
                           !.refreshSource = OrLibrary(settings.refreshSource),
                           !.refreshNsfwFilter = OrOff(settings.refreshNsfwFilter)]
                   ELSE Store(t)
     IN /\ Reduce(t, merged)
        /\ Commit(t, [tasks[t] EXCEPT !.stack = EnterLoadSavedWallpaper, !.ret = NoRet])
  /\ UNCHANGED <<local, platform, faults>>

\* One page is open and has loaded what is persisted, the other is closed.
InitPageOpen ==
  \E lib \in InitLibraries :
    \E cur \in (IF lib = <<>> THEN {NoWallpaper} ELSE {lib[i] : i \in 1 .. Len(lib)}) :
      /\ InitPersisted(lib, cur, Settings("library", "off"))
      /\ open = {"fg1"}
      /\ listeners = 1
      /\ clock = [now |-> 0, periodStart |-> 0]
      /\ redux = [c \in Ctx |->
           IF c = "fg1" THEN LoadedStore(lib, cur, Settings("library", "off"))
           ELSE InitialStore]

\* What a page does when it opens, short of rewriting a library that holds
\* an id twice.
PageOpenStep(t) ==
  \/ LoadInitialData_loadSettings(t)
  \/ FetchLibrary_getLibrary(t)
  \/ LoadSavedWallpaper_fetched(t)
  \/ LoadSavedWallpaper_getCurrentWallpaper(t)
  \/ LoadSavedWallpaper_added(t)
  \/ AddToLibrary_added(t)
  \/ StorageAddToLibrary_getLibrary(t)
  \/ StorageAddToLibrary_saveLibrary(t)

\* The open page shuffles from the browse source, the other page is opened.
NextPageOpen ==
  \E t \in TaskId :
    \/ \E c \in Fg : PageOpens(t, c)
    \/ \E c \in Fg : UserShuffle(t, c, "browse")
    \/ PageOpenStep(t)
    \/ ShuffleStep(t)
    \/ StorageSaveCurrentWallpaper_set(t)
    \/ SaveCurrentWallpaper_saved(t)
    \/ SaveCurrentWallpaper_history(t)

SpecPageOpen == InitPageOpen /\ [][NextPageOpen]_vars

\* ------------------------------------------------- the library is listed
\* The wallpaper browser shows its library view: dispatch(fetchLibrary()).
UserFetchLibrary(t, c) ==
  /\ c \in open
  /\ Start(t, [NewTask(c, "fetchLibrary", "user", "null") EXCEPT !.stack = EnterFetchLibrary])
  /\ UNCHANGED <<local, sync, alarms, redux, open, listeners, clock, req, faults>>

\* chrome.storage.local outlives the code that wrote it: the wallpaperLibrary
\* key may hold an id twice (what fetchLibrary's de-duplication is there
\* for), the two entries with different contents.
StoredLibraries ==
  {<<Wallpaper("u1"), Wallpaper("r1")>>,
   <<Wallpaper("r1"), Wallpaper("r1")>>,
   <<WithThumbnailAsPath(Wallpaper("u1")), Wallpaper("r1"), Wallpaper("u1")>>,
   <<Wallpaper("r1"), Wallpaper("u1"), Wallpaper("u1"), Wallpaper("r1")>>}

\* No page is open yet; the current wallpaper is one of the library or a
\* remote one from a browse shuffle.
InitFetchLibrary ==
  \E lib \in StoredLibraries :
    \E cur \in {lib[i] : i \in 1 .. Len(lib)} \cup {Wallpaper("r2")} :
      /\ InitPersisted(lib, cur, Settings("library", "off"))
      /\ open = {}
      /\ listeners = 1
      /\ clock = [now |-> 0, periodStart |-> 0]
      /\ redux = [c \in Ctx |-> InitialStore]

NextFetchLibrary ==
  \E t \in TaskId :
    \/ \E c \in Fg : PageOpens(t, c)
    \/ \E c \in Fg : UserFetchLibrary(t, c)
    \/ PageOpenStep(t)
    \/ FetchLibrary_saveLibrary(t)

SpecFetchLibrary == InitFetchLibrary /\ [][NextFetchLibrary]_vars

\* ------------------------------------------- new tabs and the shuffle mode
\* The messages the settings panel sends: the shuffle toggle (on with the
\* panel's interval, off), the interval choice (0: on new tab; a positive
\* one) and the new-tab toggle (on; off, with its interval of 30 minutes
\* standing as MaxInterval).
PanelMessages ==
  {<<TRUE, i, "undefined">> : i \in 0 .. MaxInterval}
    \cup {<<FALSE, 0, "undefined">>, <<FALSE, 0, "true">>, <<TRUE, 0, "true">>}
    \cup {<<TRUE, i, "false">> : i \in 1 .. MaxInterval}
    \cup {<<FALSE, MaxInterval, "false">>}

\* The panel has last chosen 'on new tab' (interval 0, no alarm) or an
\* interval of one minute (the alarm armed); the library is empty or not.
InitTabs(registered) ==
  \E lib \in {<<>>, <<Wallpaper("r1")>>} :
    \E onNewTab \in BOOLEAN :
      /\ local = [currentWallpaper |-> IF lib = <<>> THEN NoWallpaper ELSE lib[1],
                  wallpaperLibrary |-> lib,
                  settings |-> [Settings("library", "off") EXCEPT
                                  !.changeWallpaperOnNewTab = onNewTab],
                  isShuffleEnabled |-> TRUE,
                  shuffleInterval |-> IF onNewTab THEN 0 ELSE 1,
                  shuffleOnNewTab |-> onNewTab, lastShuffleTime |-> 0]
      /\ sync = [settings |-> Settings("library", "off")]
      /\ alarms = {[name |-> "clearHistory", periodInMinutes |-> 1440]} \cup
                  (IF onNewTab THEN {}
                   ELSE {[name |-> "shuffleWallpaper", periodInMinutes |-> 1]})
      /\ tasks = [t \in TaskId |-> IdleTask]
      /\ req = NoRequest
      /\ last = NoLast
      /\ ops = 0
      /\ faults = 0
      /\ open = Fg
      /\ listeners = registered
      /\ clock = [now |-> 0, periodStart |-> 0]
      /\ redux = [c \in Ctx |->
           IF c = Bg THEN InitialStore
           ELSE LoadedStore(lib, IF lib = <<>> THEN NoWallpaper ELSE lib[1],
                            Settings("library", "off"))]

InitNewTab == InitTabs(1)

NextNewTab ==
  \E t \in TaskId :
    \/ \E message \in PanelMessages : OnMessage_ShuffleSettingsUpdated(t, message)
    \/ SetupShuffleAlarm_clear(t)
    \/ SetupShuffleAlarm_get(t)
    \/ SetupShuffleAlarm_setShuffleOnNewTab(t)
    \/ SetupShuffleAlarm_setIsShuffleEnabled(t)
    \/ SetupShuffleAlarm_setSettings(t)
    \/ OnMessage_setup(t)
    \/ TabCreated(t)
    \/ OnCreated_getSettings(t)
    \/ OnCreated_getLibrary(t)
    \/ OnCreated_shuffled(t)
    \/ OnCreated_setLastShuffleTime(t)
    \/ ShuffleStep(t)
    \/ StorageSaveCurrentWallpaper_set(t)
    \/ SaveCurrentWallpaper_saved(t)
    \/ SaveCurrentWallpaper_history(t)

SpecNewTab == InitNewTab /\ [][NextNewTab]_vars

\* ------------------------------------------------------- a remote search
\* What one fetch of the search URL may come to: a network error, the abort
\* of the 15 s timer, or a response with a status and a body. A body is
\* JSON or not; a JSON body has a data array or not and a meta object or
\* not, the meta object its total or not; an item of data has its category
\* or not and its path or not.
SearchResponses ==
  LET items == {[id |-> "r1", hasCategory |-> c, hasPath |-> p] : c, p \in BOOLEAN}
      bodies == {b \in [json : BOOLEAN, hasData : BOOLEAN,
                        data : {<<>>} \cup {<<i>> : i \in items},
                        hasMeta : BOOLEAN, hasTotal : BOOLEAN] :
                   /\ ~b.json => ~b.hasData /\ ~b.hasMeta
                   /\ ~b.hasData => b.data = <<>>
                   /\ ~b.hasMeta => ~b.hasTotal}
      noBody == CHOOSE b \in bodies : ~b.json
  IN {[fetch |-> f, ok |-> FALSE, body |-> noBody] : f \in {"networkError", "abort", "response"}}
       \cup [fetch : {"response"}, ok : {TRUE}, body : bodies]

\* searchWallpapers on a fetch that came to response: whatever throws inside
\* the try (the fetch rejected, !response.ok, response.json() rejected,
\* data.data.map or an item's category or data.meta.current_page not
\* there) ends in the catch, which returns no wallpapers and a total of 0;
\* else the items are returned as mapToWallpaper copies them (a missing
\* path is an undefined path) with the meta's total as it is.
SearchWallpapers(response) ==
  LET body == response.body
      mapToWallpaper(item) ==
        [id |-> item.id, path |-> IF item.hasPath THEN "full" ELSE "undefined"]
      thrown ==
        \/ response.fetch # "response"
        \/ ~response.ok
        \/ ~body.json
        \/ ~body.hasData
        \/ \E i \in 1 .. Len(body.data) : ~body.data[i].hasCategory
        \/ ~body.hasMeta
  IN IF thrown
     THEN [wallpapers |-> <<>>, meta |-> [hasTotal |-> TRUE, total |-> 0]]
     ELSE [wallpapers |-> [i \in 1 .. Len(body.data) |-> mapToWallpaper(body.data[i])],
           meta |-> [hasTotal |-> body.hasTotal,
                     total |-> IF body.hasTotal THEN Len(body.data) ELSE 0]]

\* The wallpaper browser dispatches fetchWallpapers({query, page, filters}),
\* which awaits searchWallpapers and returns its wallpapers and meta (here
\* as the one element of the returned list). The list the browser shows is
\* not part of the core's state.
UserFetchWallpapers(t, c, response) ==
  /\ c \in open
  /\ Start(t, [NewTask(c, "fetchWallpapers", "user", "null") EXCEPT
                 !.args = <<response>>,
                 !.stack = <<[Frame("fetchWallpapers", "searchWallpapers") EXCEPT
                                !.args = <<response>>]>>])
  /\ UNCHANGED <<local, sync, alarms, redux, open, listeners, clock, req, faults>>

FetchWallpapers_searchWallpapers(t) ==
  /\ At(t, "fetchWallpapers", "searchWallpapers")
  /\ Commit(t, Return(tasks[t], OkLib(<<SearchWallpapers(Top(t).args[1])>>)))
  /\ UNCHANGED <<local, redux, platform, faults>>

NextSearch ==
  \E t \in TaskId :
    \/ \E c \in Fg, response \in SearchResponses : UserFetchWallpapers(t, c, response)
    \/ FetchWallpapers_searchWallpapers(t)

SpecSearch == InitLibrary /\ [][NextSearch]_vars

\* ---------------------------------------- a ShuffleWallpaper message as declared
\* The message as the background declares it (interface
\* ShuffleWallpaperMessage: {type: 'SHUFFLE_WALLPAPER'}, no source and no
\* nsfwFilter), sent by a page to the listeners of every other context.
SendShuffleWallpaperMessage(c) ==
  /\ c \in open /\ req.type = "none" /\ Quiet
  /\ req' = [req EXCEPT !.type = "SHUFFLE_WALLPAPER", !.from = c,
                        !.pending = {Bg} \cup (open \ {c})]
  /\ UNCHANGED <<local, sync, alarms, redux, open, listeners, clock, tasks, last, ops, faults>>

\* One ShuffleWallpaper request, with its source and filter or without, and
\* its handling.
NextMessage ==
  \/ \E c \in Fg : SendShuffleWallpaperMessage(c)
  \/ NextRequest

SpecMessage == InitBackground /\ [][NextMessage]_vars

\* ------------------------------------------- shuffles under the content filter
\* A page saves its refresh settings (source and filter) and shuffles with
\* the store's settings.
NextFilter ==
  \E t \in TaskId :
    \/ \E c \in Fg, source \in RefreshSources, nsfwFilter \in NsfwFilters :
         UserSaveSettings(t, c, source, nsfwFilter)
    \/ SaveSettings_saved(t)
    \/ \E c \in Fg : UserShuffle(t, c, "undefined")
    \/ ShuffleStep(t)
    \/ SaveCurrentStep(t)

SpecFilter == InitLibrary /\ [][NextFilter]_vars

\* ------------------------------------------------------------ the first run
\* The wallpaper that the older wallpaperService (its fetchRandomWallpaper)
\* saves and returns when the search, the saved current wallpaper and the
\* history all fail: { id: 'fallback', path: 'https://w.wallhaven.cc/...' }.
fallbackWallpaper == Wallpaper("fallback")

\* initBackground, called when the service worker starts and from
\* runtime.onInstalled on install and update.
InitBackgroundStarts(t, trig) ==
  /\ Start(t, [NewTask(Bg, "initBackground", trig, "null") EXCEPT
                 !.stack = <<Frame("initBackground", "get")>>])
  /\ UNCHANGED <<local, sync, alarms, redux, open, listeners, clock, req, faults>>

\* The keys settings, isShuffleEnabled and shuffleInterval are read; with
\* settings stored and shuffle enabled with a positive interval the alarm is
\* set up. The last statement of initBackground is
\* chrome.tabs.onCreated.addListener(async (tab) => ...): every run of
\* initBackground registers one more listener (a new function each time).
InitBackground_get(t) ==
  /\ At(t, "initBackground", "get")
  /\ LET shuffleEnabled == local.isShuffleEnabled = TRUE
         shuffleInterval == local.shuffleInterval
     IN IF local.settings.present /\ shuffleEnabled /\ shuffleInterval > 0
        THEN /\ Commit(t, Call(tasks[t], [Top(t) EXCEPT !.pc = "setup"],
                               <<[Frame("setupShuffleAlarm", "clear") EXCEPT
                                    !.args = <<TRUE, shuffleInterval, "undefined">>]>>))
             /\ UNCHANGED listeners
        ELSE /\ Commit(t, Return(tasks[t], Ok))
             /\ listeners' = listeners + 1
  /\ UNCHANGED <<local, redux, sync, alarms, open, clock, req, ops, faults>>

InitBackground_setup(t) ==
  /\ At(t, "initBackground", "setup")
  /\ Commit(t, Return(tasks[t], Ok))
  /\ listeners' = listeners + 1
  /\ UNCHANGED <<local, redux, sync, alarms, open, clock, req, ops, faults>>

\* Nothing has been saved as current and the library is empty; no page is
\* open; shuffle has been enabled in the settings or not.
InitFirstRun ==
  \E s \in {NoSettings, Settings("library", "off")} :
    \E armed \in BOOLEAN :
      /\ local = [currentWallpaper |-> NoWallpaper, wallpaperLibrary |-> <<>>,
                  settings |-> s, isShuffleEnabled |-> armed,
                  shuffleInterval |-> IF armed THEN 1 ELSE 0,
                  shuffleOnNewTab |-> FALSE, lastShuffleTime |-> 0]
      /\ sync = [settings |-> s]
      /\ alarms = {}
      /\ tasks = [t \in TaskId |-> IdleTask]
      /\ req = NoRequest
      /\ last = NoLast
      /\ ops = 0
      /\ faults = 0
      /\ open = {}
      /\ listeners = 0
      /\ clock = [now |-> 0, periodStart |-> 0]
      /\ redux = [c \in Ctx |-> InitialStore]

\* The background initializes (on start, on install) and pages are opened.
NextFirstRun ==
  \E t \in TaskId :
    \/ \E trig \in {"startup", "install"} : InitBackgroundStarts(t, trig)
    \/ InitBackground_get(t)
    \/ InitBackground_setup(t)
    \/ SetupShuffleAlarm_clear(t)
    \/ SetupShuffleAlarm_get(t)
    \/ SetupShuffleAlarm_setIsShuffleEnabled(t)
    \/ SetupShuffleAlarm_setSettings(t)
    \/ \E c \in Fg : PageOpens(t, c)
    \/ LoadInitialData_loadSettings(t)
    \/ FetchLibrary_getLibrary(t)
    \/ LoadSavedWallpaper_fetched(t)
    \/ LoadSavedWallpaper_getCurrentWallpaper(t)

SpecFirstRun == InitFirstRun /\ [][NextFirstRun]_vars

\* ----------------------------------------------- the parameters of a search
\* formatParams(filters): the categories bit-string (general, anime,
\* people; none chosen means anime, and anime is always forced in), the
\* purity bit-string (sfw, sketchy, nsfw) from filters.nsfwMode, and the
\* query q as its words: in the mode 'only' a query without 'anime' gets
\* the words anime hentai ecchi appended, and an empty q becomes anime.
FormatParamsOnlyUnsafe(filters) ==
  LET purityString ==
        CASE filters.nsfwMode = "only" -> [sfw |-> FALSE, sketchy |-> FALSE, nsfw |-> TRUE]
          [] filters.nsfwMode = "allowed" -> [sfw |-> TRUE, sketchy |-> TRUE, nsfw |-> TRUE]
          [] OTHER -> [sfw |-> TRUE, sketchy |-> FALSE, nsfw |-> FALSE]
      q == IF filters.nsfwMode = "only" /\ "anime" \notin {filters.query[i] : i \in 1 .. Len(filters.query)}
           THEN filters.query \o <<"anime", "hentai", "ecchi">>
           ELSE IF filters.query = <<>> THEN <<"anime">> ELSE filters.query
  IN [categories |-> [general |-> "general" \in filters.categories, anime |-> TRUE,
                      people |-> "people" \in filters.categories],
      purity |-> purityString, q |-> q]

FormatParams(filters) ==
  LET purityString ==
        CASE filters.nsfwMode = "only" -> [sfw |-> FALSE, sketchy |-> TRUE, nsfw |-> TRUE]
          [] filters.nsfwMode = "allowed" -> [sfw |-> TRUE, sketchy |-> TRUE, nsfw |-> TRUE]
          [] OTHER -> [sfw |-> TRUE, sketchy |-> FALSE, nsfw |-> FALSE]
      q == IF filters.nsfwMode = "only" /\ "anime" \notin {filters.query[i] : i \in 1 .. Len(filters.query)}
           THEN filters.query \o <<"anime", "hentai", "ecchi">>
           ELSE IF filters.query = <<>> THEN <<"anime">> ELSE filters.query
  IN [categories |-> [general |-> "general" \in filters.categories, anime |-> TRUE,
                      people |-> "people" \in filters.categories],
      purity |-> purityString, q |-> q]

\* searchWallpapers(query, page, customFilters) up to its fetch: the filters
\* are merged (nsfwMode: customFilters.nsfwMode || 'off'), formatParams
\* makes the parameters of the URL (here the one element of the returned
\* list). customFilters.nsfwMode may be left out.
UserSearchWallpapers(t, c, customFilters) ==
  /\ c \in open
  /\ Start(t, [NewTask(c, "searchWallpapers", "user", "null") EXCEPT
                 !.args = <<customFilters>>,
                 !.stack = <<[Frame("searchWallpapers", "formatParams") EXCEPT
                                !.args = <<[customFilters EXCEPT
                                              !.nsfwMode = OrOff(customFilters.nsfwMode)]>>]>>])
  /\ UNCHANGED <<local, sync, alarms, redux, open, listeners, clock, req, faults>>

SearchWallpapers_formatParams(t) ==
  /\ At(t, "searchWallpapers", "formatParams")
  /\ Commit(t, Return(tasks[t], OkLib(<<FormatParams(Top(t).args[1])>>)))
  /\ UNCHANGED <<local, redux, platform, faults>>

NextFormat ==
  \E t \in TaskId :
    \/ \E c \in Fg :
         \E customFilters \in [categories : {{}, {"general"}, {"anime", "people"}},
                               nsfwMode : {"undefined", "off", "allowed", "only"},
                               query : {<<>>, <<"anime">>, <<"cats">>}] :
           UserSearchWallpapers(t, c, customFilters)
    \/ SearchWallpapers_formatParams(t)

SpecFormat == InitAlarm /\ [][NextFormat]_vars

\* ------------------------------------------- new tabs after a second init
\* A tab is created while two listeners are registered (initBackground has
\* run twice: at the start of the service worker and from
\* runtime.onInstalled): the event calls both, each an async handler that
\* runs to its first await. arg tells the second listener's handler.
TabCreatedListeners(t) ==
  /\ listeners = 2
  /\ t + 1 \in TaskId /\ ~Busy(t) /\ ~Busy(t + 1)
  /\ Quiet
  /\ \A u \in TaskId : u < t => Busy(u)
  /\ ops + 2 <= MaxOps
  /\ ops' = ops + 2
  /\ tasks' = [u \in TaskId |->
       IF u \in {t, t + 1}
       THEN [NewTask(Bg, "onCreated", "newTab", IF u = t THEN "null" ELSE "again") EXCEPT
               !.alone = FALSE, !.stack = <<Frame("onCreated", "getSettings")>>]
       ELSE IF Busy(u) THEN [tasks[u] EXCEPT !.alone = FALSE] ELSE tasks[u]]
  /\ UNCHANGED <<local, sync, alarms, redux, open, listeners, clock, req, last, faults>>

\* The background has been initialized once, or a second time by an install
\* or update event.
InitReinstalled == \E registered \in {1, 2} : InitTabs(registered)

NextReinstalled ==
  \E t \in TaskId :
    \/ TabCreated(t)
    \/ TabCreatedListeners(t)
    \/ OnCreated_getSettings(t)
    \/ OnCreated_getLibrary(t)
    \/ OnCreated_shuffled(t)
    \/ OnCreated_setLastShuffleTime(t)
    \/ ShuffleStep(t)
    \/ StorageSaveCurrentWallpaper_set(t)
    \/ SaveCurrentWallpaper_saved(t)
    \/ SaveCurrentWallpaper_history(t)

SpecReinstalled == InitReinstalled /\ [][NextReinstalled]_vars

\* --------------------------------------------- the alarm and the restarts
\* The minutes the model lets pass.
MaxTime == MaxInterval + 1

\* The period of the 'shuffleWallpaper' alarm is over.
ShuffleAlarmIsDue ==
  \E a \in alarms :
    /\ a.name = "shuffleWallpaper"
    /\ clock.now >= clock.periodStart + a.periodInMinutes

\* A minute passes, unless the 'shuffleWallpaper' alarm is due: an alarm
\* created with periodInMinutes fires that many minutes after its creation
\* and then again after every period.
Tick ==
  /\ Quiet
  /\ clock.now < MaxTime
  /\ ~ShuffleAlarmIsDue
  /\ clock' = [clock EXCEPT !.now = @ + 1]
  /\ UNCHANGED <<local, sync, alarms, redux, open, listeners, tasks, req, last, ops, faults>>

\* The 'shuffleWallpaper' alarm fires when its period is over.
AlarmDue(t) == ShuffleAlarmIsDue /\ AlarmFires(t)

\* The service worker starts again and its top level calls initBackground,
\* before the alarm is due (an alarm that is due starts the worker itself).
Restart(t) == ~ShuffleAlarmIsDue /\ InitBackgroundStarts(t, "startup")

\* The scheduler is armed: shuffle is enabled with an interval of one or two
\* minutes and the alarm has just been created with that period.
InitRestart ==
  \E intervalMinutes \in 1 .. MaxInterval :
    \E s \in {Settings("library", "off"), Settings("browse", "off")} :
      /\ local = [currentWallpaper |-> Wallpaper("r1"),
                  wallpaperLibrary |-> <<Wallpaper("r1")>>, settings |-> s,
                  isShuffleEnabled |-> TRUE, shuffleInterval |-> intervalMinutes,
                  shuffleOnNewTab |-> FALSE, lastShuffleTime |-> 0]
      /\ sync = [settings |-> s]
      /\ alarms = {[name |-> "clearHistory", periodInMinutes |-> 1440],
                   [name |-> "shuffleWallpaper", periodInMinutes |-> intervalMinutes]}
      /\ tasks = [t \in TaskId |-> IdleTask]
      /\ req = NoRequest
      /\ last = NoLast
      /\ ops = 0
      /\ faults = 0
      /\ open = {}
      /\ listeners = 1
      /\ clock = [now |-> 0, periodStart |-> 0]
      /\ redux = [c \in Ctx |-> InitialStore]

\* Time passes, the alarm fires when it is due, and the background is
\* initialized again (the service worker starts again); no settings message
\* is sent.
NextRestart ==
  \/ Tick
  \/ \E t \in TaskId :
       \/ AlarmDue(t)
       \/ Restart(t)
       \/ InitBackground_get(t)
       \/ InitBackground_setup(t)
       \/ SetupShuffleAlarm_clear(t)
       \/ SetupShuffleAlarm_get(t)
       \/ SetupShuffleAlarm_setIsShuffleEnabled(t)
       \/ SetupShuffleAlarm_setSettings(t)
       \/ PerformWallpaperShuffle_getSettings(t)
       \/ PerformWallpaperShuffle_getLibrary(t)
       \/ PerformWallpaperShuffle_setLastShuffleTime(t)
       \/ PerformWallpaperShuffle_shuffled(t)
       \/ OnAlarm_performed(t)
       \/ OnAlarm_shuffleCount(t)
       \/ ShuffleStep(t)
       \/ StorageSaveCurrentWallpaper_set(t)
       \/ SaveCurrentWallpaper_saved(t)
       \/ SaveCurrentWallpaper_history(t)

SpecRestart == InitRestart /\ [][NextRestart]_vars

\* ------------------------------------------------------------- properties
\* C1: the persisted Library never holds two entries with the same id,
\* whatever the interleaving of add, remove, set-current and shuffle in the
\* two pages.
C1_LibraryIdsUnique == NoDuplicateIds(local.wallpaperLibrary)

\* C1's case: an add that ran while another operation was in flight has put
\* its wallpaper into a Library that another operation changed meanwhile.
C1_Witness ==
  /\ last.op = "addToLibrary" /\ last.st = "ok" /\ ~last.alone
  /\ ~HasId(last.lib0, last.arg) /\ HasId(last.lib1, last.arg)
  /\ Len(last.lib1) # Len(last.lib0) + 1

\* C2: two adds of the same wallpaper in sequence, both returning without an
\* error and with no other operation in flight, leave exactly one entry with
\* its id; if the Library held the id before the first, it is as it was
\* (same entries, same order, same contents).
C2_TwiceInSequence ==
  /\ last.op = "addToLibrary" /\ last.st = "ok" /\ last.alone
  /\ last.before.op = "addToLibrary" /\ last.before.st = "ok" /\ last.before.alone
  /\ last.before.arg = last.arg

C2_AddTwiceLeavesOne ==
  C2_TwiceInSequence =>
    /\ CountId(last.lib1, last.arg) = 1
    /\ HasId(last.before.lib0, last.arg) => last.lib1 = last.before.lib0
    /\ last.lib1 = last.lib0

\* C2's cases: the second add of a wallpaper the first one inserted, and the
\* second add of an upload the Library already held.
C2_Witness ==
  /\ C2_TwiceInSequence
  /\ ~HasId(last.before.lib0, last.arg) /\ Len(last.before.lib0) > 0

C2_WitnessHeld ==
  /\ C2_TwiceInSequence
  /\ HasId(last.before.lib0, last.arg) /\ IsLocalUpload(last.arg)

DistinctIds(s) == {s[i].id : i \in 1 .. Len(s)}

\* C4 (as the spec states it): a library-source shuffle that ran alone, with
\* a pool of at least two distinct ids and a Current c (persisted and held
\* by the store), returns and persists a wallpaper whose id is not c's.
C4_Case ==
  /\ last.op = "shuffleWallpaper" /\ last.source = "library" /\ last.st = "ok"
  /\ last.alone /\ last.heldCur # NoWallpaper /\ last.cur0 = last.heldCur
  /\ Cardinality(DistinctIds(last.pool)) >= 2

C4_NeverRepeats == C4_Case => last.w.id # last.heldCur.id /\ last.cur1.id # last.cur0.id

\* C6 (as the spec states it): a removal that ran alone, returned without an
\* error and removed the persisted Current from a Library that stays
\* non-empty leaves a persisted Current that is in the remaining Library.
C6_Case ==
  /\ last.op = "removeFromLibrary" /\ last.st = "ok" /\ last.alone
  /\ last.cur0.id = last.arg /\ HasId(last.lib0, last.arg)
  /\ ~HasId(last.lib1, last.arg) /\ Len(last.lib1) > 0

C6_CurrentStaysInLibrary == C6_Case => HasId(last.lib1, last.cur1.id)

\* C3: a shuffle that the background started on an alarm, a new tab or a
\* ShuffleWallpaper message and that ran alone and ended in failure has not
\* written the currentWallpaper key: the persisted Current is the one it
\* began with.
C3_SchedulerFailure ==
  /\ last.ctx = Bg /\ last.trig \in {"alarm", "newTab", "message"}
  /\ last.st = "err" /\ last.alone

C3_FailureKeepsCurrent ==
  C3_SchedulerFailure => last.cur1 = last.cur0 /\ last.wrote = 0

\* C3's case: the failure is raised by the write of the chosen wallpaper (a
\* wallpaper was chosen from a pool, the one storage fault was spent on it).
C3_Witness ==
  /\ C3_SchedulerFailure /\ last.pool # <<>> /\ faults = 1
  /\ local.lastShuffleTime # 0 /\ last.cur0 # NoWallpaper

\* C5 (as the spec states it): an alarm firing that ran alone with the
\* settings' source library and an empty persisted Library has made one
\* attempt with the browse source.
C5_AlarmRetriesWithBrowse ==
  (/\ last.trig = "alarm" /\ last.alone /\ last.lib0 = <<>>
   /\ local.settings.refreshSource = "library")
  => last.source = "browse"

\* C8 (as the spec states it): the shuffle of a ShuffleWallpaper request is
\* executed by the background only, and its handlers write the
\* currentWallpaper key at most once.
C8_OneExecutionByBackground == req.executed \subseteq {Bg} /\ req.writes <= 1

\* C10 (as the spec states it): a library-source shuffle of the background
\* (alarm or new tab, the filter off) that ran alone over a non-empty
\* persisted Library succeeds and leaves a Current of that Library.
C10_BackgroundShufflesLibrary ==
  (/\ last.ctx = Bg /\ last.trig \in {"alarm", "newTab"} /\ last.alone
   /\ last.source = "library" /\ Len(last.lib0) > 0)
  => last.st = "ok" /\ HasId(last.lib0, last.cur1.id)

\* C9: the background answers every ShuffleWallpaper request it receives,
\* once, and with success exactly when its execution wrote the
\* currentWallpaper key.
BackgroundResponses == {i \in 1 .. Len(req.responses) : req.responses[i].ctx = Bg}

C9_Received == req.type = "SHUFFLE_WALLPAPER" /\ Bg \notin req.pending

C9_OneResponse ==
  /\ [](/\ Cardinality(BackgroundResponses) <= 1
        /\ \A i \in BackgroundResponses :
             req.responses[i].success <=> req.responses[i].wrote = 1)
  /\ C9_Received ~> (Cardinality(BackgroundResponses) = 1)

\* C9's case: the background has answered a request with success.
C9_Witness ==
  \E i \in BackgroundResponses : req.responses[i].success /\ req.responses[i].wrote = 1

\* C7: at no time are there two 'shuffleWallpaper' alarms; and when the
\* handling of a ShuffleSettingsUpdated message that ran alone is over, the
\* alarm exists exactly when isEnabled and interval > 0, with the interval
\* as its period.
ShuffleAlarms(as) == {a \in as : a.name = "shuffleWallpaper"}

C7_AlarmFollowsSettings ==
  /\ Cardinality(ShuffleAlarms(alarms)) <= 1
  /\ (last.op = "onMessage.settings" /\ last.alone) =>
       /\ ShuffleAlarms(last.alarms1) # {} <=> (last.args[1] /\ last.args[2] > 0)
       /\ \A a \in ShuffleAlarms(last.alarms1) : a.periodInMinutes = last.args[2]

\* C7's cases: an armed alarm is replaced by one of another period; a
\* message with isEnabled and interval 0 leaves no alarm.
C7_Witness ==
  /\ last.op = "onMessage.settings" /\ last.alone /\ last.args[1] /\ last.args[2] = 2
  /\ last.before.op = "onMessage.settings"
  /\ [name |-> "shuffleWallpaper", periodInMinutes |-> 2] \in alarms

C7_WitnessIdle ==
  /\ last.op = "onMessage.settings" /\ last.alone /\ last.args[1] /\ last.args[2] = 0
  /\ ShuffleAlarms(alarms) = {} /\ local.isShuffleEnabled

\* C11 (as the spec states it): when a settings save with refreshSource s
\* and refreshNsfwFilter f has completed with success and the alarm fires
\* next, performWallpaperShuffle goes on with source s and filter f.
C11_Performing(t) ==
  {i \in 1 .. Len(tasks[t].stack) :
     /\ tasks[t].stack[i].fn = "performWallpaperShuffle"
     /\ tasks[t].stack[i].pc # "getSettings"}

C11_AlarmUsesSavedSettings ==
  \A t \in TaskId :
    (/\ Busy(t) /\ tasks[t].trig = "alarm" /\ tasks[t].alone
     /\ last.op = "saveSettings" /\ last.st = "ok")
    => \A i \in C11_Performing(t) :
         /\ OrLibrary(tasks[t].stack[i].src) = last.args[1]
         /\ OrOff(tasks[t].stack[i].nsfw) = last.args[2]

\* C12 (as the spec states it): an add that ran alone and whose first
\* Library write hit the quota error has written exactly twice, the second
\* time with the thumbnail as path; when the retry went through the add
\* returns success and the entry stored first has the thumbnail as path;
\* when it failed the add fails with the quota error and the persisted
\* Library is as it was. (Every wallpaper has a thumbnail.)
C12_QuotaOnFirstWrite ==
  /\ last.op = "addToLibrary" /\ last.alone
  /\ Len(last.libWrites) >= 1 /\ last.libWrites[1] = "quota"

C12_RetriedOnce ==
  /\ Len(last.libWrites) = 2
  /\ last.libWrites[2] = "ok" =>
       /\ last.st = "ok"
       /\ last.lib1 = <<WithThumbnailAsPath(Wallpaper(last.arg))>> \o last.lib0
  /\ last.libWrites[2] # "ok" =>
       /\ last.st = "err" /\ last.msg = "quota"
       /\ last.lib1 = last.lib0

C12_QuotaRetriesWithThumbnail == C12_QuotaOnFirstWrite => C12_RetriedOnce

\* C12, amended: the retry is made for a wallpaper whose path is a data: URL
\* (a user upload); for any other wallpaper the quota error on the first
\* write fails the add at once, with the quota error and the persisted
\* Library as it was.
C12_QuotaRetriesDataImage ==
  C12_QuotaOnFirstWrite =>
    IF IsLocalUpload(last.arg)
    THEN C12_RetriedOnce
    ELSE /\ Len(last.libWrites) = 1
         /\ last.st = "err" /\ last.msg = "quota"
         /\ last.lib1 = last.lib0

\* C12's cases: the retry of an upload went through, and it failed.
C12_Witness ==
  /\ C12_QuotaOnFirstWrite /\ last.libWrites = <<"quota", "ok">>
  /\ last.st = "ok" /\ last.lib1[1].path = "thumb" /\ Len(last.lib0) > 0

C12_WitnessRetryFails ==
  /\ C12_QuotaOnFirstWrite /\ Len(last.libWrites) = 2 /\ last.libWrites[2] # "ok"
  /\ last.st = "err"

\* C13 (as the spec states it): in every state with no operation in flight,
\* a persisted Current that is a user upload has an entry with its id in the
\* persisted Library.
Quiescent == \A t \in TaskId : ~Busy(t)

C13_UploadCurrentInLibrary ==
  (Quiescent /\ IsLocalUpload(local.currentWallpaper.id))
  => HasId(local.wallpaperLibrary, local.currentWallpaper.id)

\* C14 (as the spec states it): a remote wallpaper that a browse-source
\* shuffle made Current, and that no add-to-library action was issued for,
\* is not in the persisted Library after a page has opened and run
\* loadSavedWallpaper. (The behaviours of SpecPageOpen hold browse shuffles
\* and page opens only.)
C14_BrowseCurrentStaysOut ==
  (/\ last.op = "loadInitialData"
   /\ last.before.op = "shuffleWallpaper" /\ last.before.st = "ok"
   /\ last.cur0 # NoWallpaper /\ ~IsLocalUpload(last.cur0.id)
   /\ ~HasId(last.lib0, last.cur0.id))
  => ~HasId(last.lib1, last.cur0.id)

\* C15: when fetchLibrary, run with nothing else in flight and no failing
\* write on a persisted Library that holds an id more than once, returns
\* (to loadSavedWallpaper at a page open, or to the page that dispatched
\* it), the persisted Library holds every id once, the returned list is the
\* persisted one, and the ids stand in the order of their first entries.
IdsOf(s) == [i \in 1 .. Len(s) |-> s[i].id]

RECURSIVE FirstIds(_)
FirstIds(s) ==
  IF s = <<>> THEN <<>>
  ELSE IF HasId(Front(s), s[Len(s)].id) THEN FirstIds(Front(s))
       ELSE FirstIds(Front(s)) \o <<s[Len(s)].id>>

AllOk(outcomes) == \A i \in 1 .. Len(outcomes) : outcomes[i] = "ok"

C15_Listed(lib0, list, lib1) ==
  /\ NoDuplicateIds(lib1)
  /\ list = lib1
  /\ IdsOf(lib1) = FirstIds(lib0)

C15_ReturnedAtOpen(t) ==
  /\ Busy(t) /\ tasks[t].alone /\ tasks[t].ret.st = "ok"
  /\ Top(t).fn = "loadSavedWallpaper" /\ Top(t).pc = "fetched"
  /\ ~NoDuplicateIds(tasks[t].lib0) /\ AllOk(tasks[t].libWrites)

C15_ReturnedToPage ==
  /\ last.op = "fetchLibrary" /\ last.alone
  /\ ~NoDuplicateIds(last.lib0) /\ AllOk(last.libWrites)

C15_WitnessPage == C15_ReturnedToPage /\ last.libWrites = <<"ok">>

\* C16 (as the spec states it): a removal that ran alone and completed with
\* success leaves no entry with the removed id in the persisted Library.
C16_RemovedIsGone ==
  (last.op = "removeFromLibrary" /\ last.st = "ok" /\ last.alone)
  => ~HasId(last.lib1, last.arg)

\* C17 (as the spec states it): a removal that ran alone for an id that was
\* not in the persisted Library leaves the persisted Library and Current as
\* they were and completes without an error.
C17_AbsentIdIsNoError ==
  (last.op = "removeFromLibrary" /\ last.alone /\ ~HasId(last.lib0, last.arg))
  => /\ last.lib1 = last.lib0
     /\ last.cur1 = last.cur0
     /\ last.st = "ok"

\* C18: a set-current that ran alone leaves the wallpaperLibrary key as it
\* was when the item is no user upload, whatever its outcome; when the item
\* is a user upload and the set-current succeeded, the item is in the
\* Library: the Library is as it was when it held the id, and has the item
\* as its one new entry, in front, when it did not.
C18_SetCurrent == last.op = "setCurrentWallpaper" /\ last.alone

C18_AddsExactlyUploads ==
  C18_SetCurrent =>
    IF IsLocalUpload(last.arg)
    THEN last.st = "ok" =>
           /\ HasId(last.lib1, last.arg)
           /\ HasId(last.lib0, last.arg) => last.lib1 = last.lib0
           /\ ~HasId(last.lib0, last.arg) =>
                /\ Len(last.lib1) = Len(last.lib0) + 1
                /\ last.lib1[1].id = last.arg
                /\ Tail(last.lib1) = last.lib0
    ELSE last.lib1 = last.lib0

\* C18's cases: an upload that was not in the Library has been made
\* Current and stands first in it; a remote wallpaper that was not in the
\* Library has been made Current and is not in it.
C18_Witness ==
  /\ C18_SetCurrent /\ last.st = "ok" /\ IsLocalUpload(last.arg)
  /\ ~HasId(last.lib0, last.arg) /\ Len(last.lib0) > 0
  /\ last.lib1 = <<Wallpaper(last.arg)>> \o last.lib0
  /\ last.cur1.id = last.arg

C18_WitnessRemote ==
  /\ C18_SetCurrent /\ last.st = "ok" /\ ~IsLocalUpload(last.arg)
  /\ ~HasId(last.lib0, last.arg) /\ last.cur1.id = last.arg
  /\ last.lib1 = last.lib0

\* C19 (as the spec states it): a new-tab handler that has run alone and
\* gone on to shuffle has read persisted settings in on-page-open mode
\* (shuffleInterval 0 and shuffleOnNewTab true); and with nothing in flight
\* and the settings in that mode there is no 'shuffleWallpaper' alarm.
OnPageOpenMode == local.shuffleInterval = 0 /\ local.shuffleOnNewTab = TRUE

C19_NewTabShuffles(t) ==
  /\ Busy(t) /\ tasks[t].trig = "newTab" /\ tasks[t].alone
  /\ tasks[t].stack[1].pc # "getSettings"

C19_NewTabShufflesOnlyInMode ==
  /\ \A t \in TaskId : C19_NewTabShuffles(t) => OnPageOpenMode
  /\ (Quiescent /\ OnPageOpenMode) => ShuffleAlarms(alarms) = {}

\* C20 (as the spec states it): in one context no two handlers have a
\* dispatched shuffle in flight at the same time (the second shuffle does
\* not begin before the first one's storage writes are over).
ShuffleInFlight(t) ==
  /\ Busy(t)
  /\ \E i \in 1 .. Len(tasks[t].stack) : tasks[t].stack[i].fn = "shuffleWallpaper"

C20_OneShufflePerContext ==
  \A t, u \in TaskId :
    (t # u /\ ShuffleInFlight(t) /\ ShuffleInFlight(u)) => tasks[t].ctx # tasks[u].ctx

\* C21 (as the spec states it): an add that reported success has its
\* wallpaper in the persisted Library when the operation that completed
\* after it (or before it) is over, unless that operation is a removal of
\* the same id. (A behaviour holds two operations.)
C21_Removal(op, arg, id) == op = "removeFromLibrary" /\ arg = id

C21_SuccessfulAddsStay ==
  /\ (/\ last.before.op = "addToLibrary" /\ last.before.st = "ok"
      /\ ~C21_Removal(last.op, last.arg, last.before.arg))
     => HasId(last.lib1, last.before.arg)
  /\ (/\ last.op = "addToLibrary" /\ last.st = "ok"
      /\ ~C21_Removal(last.before.op, last.before.arg, last.arg))
     => HasId(last.lib1, last.arg)

\* C22 (as the spec states it): once the background has executed the shuffle
\* of a ShuffleWallpaper request with success, the store of every open page
\* comes to hold the persisted Current Wallpaper (the pages stay open all
\* along).
C22_BackgroundShuffled == last.ctx = Bg /\ last.op = "onMessage" /\ last.st = "ok"

C22_PagesShowPersisted ==
  \A c \in open : redux[c].currentWallpaper = local.currentWallpaper

C23_CurrentStaysSet ==
  [][local.currentWallpaper # NoWallpaper => local'.currentWallpaper # NoWallpaper]_vars

\* C23's cases: the Current was removed from a Library that is empty after
\* it and the remote provider gave no replacement; a shuffle failed on its
\* write of the currentWallpaper key.
C23_Witness ==
  /\ last.op = "removeFromLibrary" /\ last.cur0.id = last.arg /\ last.alone
  /\ last.lib1 = <<>> /\ last.wrote = 0 /\ last.cur1 = last.cur0

C23_WitnessShuffleFails ==
  /\ last.op = "shuffleWallpaper" /\ last.st = "err" /\ last.pool # <<>>
  /\ last.cur0 # NoWallpaper /\ last.cur1 = last.cur0

\* C24 (as the spec states it): a search whose fetch failed (network error,
\* abort of the timer, a status that is not OK) or whose response body is
\* malformed (no JSON, or JSON that lacks the data array, the meta object,
\* the meta's total, or an item's category or path) returns no wallpapers
\* and a total of 0.
C24_WellFormed(response) ==
  /\ response.fetch = "response" /\ response.ok
  /\ response.body.json /\ response.body.hasData
  /\ response.body.hasMeta /\ response.body.hasTotal
  /\ \A i \in 1 .. Len(response.body.data) :
       response.body.data[i].hasCategory /\ response.body.data[i].hasPath

C24_FailureIsEmptyResult ==
  (last.op = "fetchWallpapers" /\ ~C24_WellFormed(last.args[1]))
  => /\ last.st = "ok"
     /\ last.list[1].wallpapers = <<>>
     /\ last.list[1].meta.hasTotal /\ last.list[1].meta.total = 0

\* C25 (as the spec states it): the shuffle that the background dispatches
\* for a ShuffleWallpaper message has the message's source when the message
\* carries one, and the persisted refreshSource setting (the 'settings' key
\* of chrome.storage.sync, or that of chrome.storage.local) when it carries
\* none.
C25_MessageSourceOrSetting ==
  (last.op = "onMessage" /\ last.source # "none") =>
    IF req.source # "undefined"
    THEN last.source = req.source
    ELSE last.source \in {sync.settings.refreshSource, local.settings.refreshSource}

\* C26: a library-source shuffle that has chosen has chosen from the pool
\* the filter gives: for only, the Library's items with an nsfw mark, in
\* the Library's order; for allowed and for off, the whole Library. And a
\* library-source shuffle that ran alone fails with NoMatchingContent
\* exactly when the Library is not empty and the filter leaves nothing of
\* it.
C26_Pool(library, nsfwFilter) ==
  IF nsfwFilter = "only" THEN SelectSeq(library, LAMBDA w : IsNsfw(w.id)) ELSE library

C26_LibraryShuffle(t) ==
  {i \in 1 .. Len(tasks[t].stack) :
     /\ tasks[t].stack[i].fn = "shuffleWallpaper"
     /\ tasks[t].stack[i].src = "library"}

C26_PoolFollowsFilter ==
  /\ \A t \in TaskId :
       Busy(t) => \A i \in C26_LibraryShuffle(t) :
         /\ tasks[t].pool = C26_Pool(tasks[t].lib0, tasks[t].stack[i].nsfw)
         /\ tasks[t].pool # <<>>
  /\ (last.op = "shuffleWallpaper" /\ last.source = "library" /\ last.alone) =>
       /\ last.msg = "NoMatchingContent" <=>
            /\ last.lib0 # <<>>
            /\ C26_Pool(last.lib0, redux[last.ctx].refreshNsfwFilter) = <<>>
       /\ last.st = "ok" =>
            last.pool = C26_Pool(last.lib0, redux[last.ctx].refreshNsfwFilter)

\* C26's cases: with the filter only a shuffle has chosen from a Library of
\* a safe and an unsafe wallpaper; with the filter only and no unsafe
\* wallpaper in the Library the shuffle has failed; with the filter allowed
\* the pool is the whole Library.
C26_Witness ==
  \E t \in TaskId :
    /\ Busy(t) /\ C26_LibraryShuffle(t) # {}
    /\ \A i \in C26_LibraryShuffle(t) : tasks[t].stack[i].nsfw = "only"
    /\ Len(tasks[t].lib0) = 2 /\ tasks[t].pool = <<Wallpaper("r2")>>

C26_WitnessNoMatch ==
  /\ last.op = "shuffleWallpaper" /\ last.source = "library" /\ last.alone
  /\ last.msg = "NoMatchingContent" /\ Len(last.lib0) = 2
  /\ redux[last.ctx].refreshNsfwFilter = "only"

C26_WitnessAllowed ==
  /\ last.op = "shuffleWallpaper" /\ last.source = "library" /\ last.alone
  /\ last.st = "ok" /\ redux[last.ctx].refreshNsfwFilter = "allowed"
  /\ last.pool = <<Wallpaper("r1"), Wallpaper("r2")>>


\* C27: whatever storage, alarm or network operation fails, no handler of
\* the background (alarm expiry, message, new tab, install, startup) ends
\* with an exception or a promise rejection that nothing catches.
C27_NoUnhandledRejection ==
  last.ctx = Bg => ~last.uncaught


\* C28: the response of the background to a ShuffleSettingsUpdated message
\* has success: false only when the requested operation failed (a storage
\* or alarm call of it failed), and then it carries an error (the response
\* is the result of setupShuffleAlarm; st = "err" stands for a response
\* with an error string).
C28_SuccessFalseIsFailure ==
  (last.op = "onMessage.settings" /\ last.msg = "false") =>
    (faults > 0 /\ last.st = "err")


\* C29: at first run (nothing saved as current, an empty library, the remote
\* provider out of reach) the initialization of the background ends with
\* the hardcoded fallback wallpaper persisted as current.
C29_FirstRunEndsWithFallback ==
  (last.op = "initBackground" /\ last.cur0 = NoWallpaper /\ last.lib0 = <<>>) =>
    last.cur1 = fallbackWallpaper


\* C30: a write of the currentWallpaper key that fails with the quota error
\* is not what storageService.saveCurrentWallpaper hands to its caller: the
\* write is first retried once with the thumbnail as path (and the quota
\* error surfaces only when the retry fails too).
C30_QuotaOnCurrentIsRetried ==
  [][\A t \in TaskId :
       (/\ Busy(t)
        /\ Top(t).fn = "storageService.saveCurrentWallpaper" /\ Top(t).pc = "set"
        /\ faults' = faults + 1)
       => ~(tasks'[t].ret.st = "err" /\ tasks'[t].ret.msg = "quota")]_vars


\* C31 (as the spec states it): the purity bit-string that formatParams
\* makes, positions [safe, sketchy, unsafe], is safe only for off, safe and
\* unsafe for allowed, unsafe only for only.
C31_PurityAsStated ==
  last.op = "searchWallpapers" =>
    last.list[1].purity =
      CASE last.args[1].nsfwMode = "only" -> [sfw |-> FALSE, sketchy |-> FALSE, nsfw |-> TRUE]
        [] last.args[1].nsfwMode = "allowed" -> [sfw |-> TRUE, sketchy |-> FALSE, nsfw |-> TRUE]
        [] OTHER -> [sfw |-> TRUE, sketchy |-> FALSE, nsfw |-> FALSE]

\* C31, amended: sketchy goes with unsafe: off (or no mode given) is safe
\* only (100), allowed is safe, sketchy and unsafe (111), only is sketchy
\* and unsafe (011).
C31_PuritySketchyWithUnsafe ==
  last.op = "searchWallpapers" =>
    last.list[1].purity =
      CASE last.args[1].nsfwMode = "only" -> [sfw |-> FALSE, sketchy |-> TRUE, nsfw |-> TRUE]
        [] last.args[1].nsfwMode = "allowed" -> [sfw |-> TRUE, sketchy |-> TRUE, nsfw |-> TRUE]
        [] OTHER -> [sfw |-> TRUE, sketchy |-> FALSE, nsfw |-> FALSE]

\* C31's cases: a search in each of the three modes, and one without mode.
C31_Witness ==
  /\ last.op = "searchWallpapers" /\ last.args[1].nsfwMode = "only"
  /\ last.list[1].purity.sketchy /\ ~last.list[1].purity.sfw

C31_WitnessAllowed ==
  /\ last.op = "searchWallpapers" /\ last.args[1].nsfwMode = "allowed"
  /\ last.list[1].purity.sfw /\ last.list[1].purity.sketchy

C31_WitnessOff ==
  /\ last.op = "searchWallpapers" /\ last.args[1].nsfwMode \in {"off", "undefined"}
  /\ last.list[1].purity.sfw /\ ~last.list[1].purity.nsfw


\* C32: the pick loop of a shuffle ends after at most as many picks as the
\* pool has elements, and after exactly one pick when the pool has a single
\* element or the store holds no current wallpaper. (And it ends before the
\* bound only on a pick that is not the current wallpaper.)
C32_PickLoopBounded ==
  last.pool # <<>> =>
    /\ last.attempts >= 1 /\ last.attempts <= Len(last.pool)
    /\ (Len(last.pool) = 1 \/ last.heldCur = NoWallpaper) => last.attempts = 1
    /\ (/\ last.op = "shuffleWallpaper" /\ last.st = "ok"
        /\ last.heldCur # NoWallpaper /\ last.attempts < Len(last.pool))
       => last.w.id # last.heldCur.id

\* C32's cases: the loop picked again (the current wallpaper came first),
\* a pool of one that is the current wallpaper, and no current wallpaper
\* with a pool of two.
C32_Witness ==
  /\ last.op = "shuffleWallpaper" /\ last.st = "ok"
  /\ Len(last.pool) >= 2 /\ last.attempts = Len(last.pool)
  /\ HasId(last.pool, last.heldCur.id)

C32_WitnessSingle ==
  /\ Len(last.pool) = 1 /\ last.pool[1].id = last.heldCur.id /\ last.attempts = 1

C32_WitnessNoCurrent ==
  /\ Len(last.pool) >= 2 /\ last.heldCur = NoWallpaper /\ last.attempts = 1


\* C33: once the handlers of ShuffleSettingsUpdated messages that ran
\* interleaved have all completed (no storage call having failed), the
\* 'shuffleWallpaper' alarm exists exactly when the persisted
\* isShuffleEnabled is true and the persisted shuffleInterval is above 0.
C33_AlarmMatchesPersisted ==
  (/\ Quiescent /\ faults = 0
   /\ last.op = "onMessage.settings" /\ last.before.op = "onMessage.settings"
   /\ ~last.alone)
  => ((\E a \in alarms : a.name = "shuffleWallpaper")
        <=> (local.isShuffleEnabled /\ local.shuffleInterval > 0))


\* C34: one new-tab-created event starts at most one shuffle in the
\* background, also when initBackground has run a second time: no two
\* handlers of the same event both have a dispatched shuffle.
C34_OneShufflePerEvent ==
  \A t, u \in TaskId :
    (/\ t # u /\ tasks[t].op = "onCreated" /\ tasks[u].op = "onCreated"
     /\ tasks[u].arg = "again")
    => ~(ShuffleInFlight(t) /\ ShuffleInFlight(u))


\* C35 (as the spec states it): when the background has handled the message
\* of the shuffle toggle switched off ({isEnabled: false, interval: 0}) with
\* no call failing, a new-tab handler that starts afterwards leaves the
\* persisted Current Wallpaper as it found it.
C35_ToggledOff ==
  /\ last.op = "onMessage.settings" /\ last.alone
  /\ last.args = <<FALSE, 0, "undefined">>
  /\ faults = 0

C35_OffStopsNewTabShuffle ==
  C35_ToggledOff =>
    \A t \in TaskId :
      (Busy(t) /\ tasks[t].op = "onCreated" /\ tasks[t].alone)
      => local.currentWallpaper = tasks[t].cur0


\* C36 (as the spec states it): while the scheduler is armed and the
\* settings do not change, a re-initialization of the background does not
\* reset the time remaining on the 'shuffleWallpaper' alarm: when
\* initBackground has run to its end before the alarm armed at minute 0 was
\* due, no call failing, the alarm is still due when it was.
C36_TimeRemaining == clock.periodStart + local.shuffleInterval - clock.now

C36_RestartKeepsAlarmTime ==
  (/\ faults = 0
   /\ last.op = "initBackground" /\ last.before.op = "none"
   /\ local.isShuffleEnabled /\ local.shuffleInterval > 0
   /\ clock.now < local.shuffleInterval)
  => C36_TimeRemaining = local.shuffleInterval - clock.now


\* C37 (as the spec states it): a failed shuffle on any trigger path of the
\* background (alarm, ShuffleWallpaper message, new tab) leaves the
\* persisted lastShuffleTime as it was: when the first operation of a
\* behaviour was such a handler, ran alone and ended in failure,
\* lastShuffleTime still has its initial value.
C37_ShuffleHandlers == {"onAlarm", "onMessage", "onCreated"}

C37_FailedShuffleKeepsTime ==
  (/\ Quiescent
   /\ last.ctx = Bg /\ last.op \in C37_ShuffleHandlers
   /\ last.before.op = "none" /\ last.alone
   /\ last.st = "err")
  => local.lastShuffleTime = 0

====
